---- MODULE Spec2Model ----
(***************************************************************************)
(* The resumable scrape orchestrator of open-hadith-data: scraper.ts      *)
(* (scrapeAllCollections, scrapeCollection, scrapeCollectionWithBooks,     *)
(* scrapeFlatCollection, scrapeBook, fetchWithRetry, resetState), state.ts *)
(* (the persisted state file, the per-book cache, the collection output,   *)
(* the error log) and the commands of main.ts.                             *)
(*                                                                         *)
(* One command runs at a time.  Every await of the code (a file read or   *)
(* write, a request, a sleep) is one step, taken together with the         *)
(* synchronous code that follows it, so a process kill (Crash) can fall    *)
(* between any two awaits, and a kill that falls inside a file write       *)
(* leaves that file truncated (Deno.writeTextFile is not atomic).          *)
(*                                                                         *)
(* The error log is never read by the program.  errorLog holds the lines   *)
(* appended since the running command started; the lines of earlier        *)
(* commands stay in the file and are left out of the state.                *)
(***************************************************************************)
EXTENDS Integers, Sequences, FiniteSets, TLC

\* ---------------------------------------------------------------- bounds
NumBooks == 2
MaxRuns == 2
\* elements of one kind (containers, links, text matches) on a page
MaxItems == 3
\* the largest unit or chapter number on a page
MaxNum == 2
MaxWords == 2

\* ------------------------------------------------------ program constants
MAX_RETRIES == 3
RATE_LIMIT_MS == 1500
RETRY_DELAY_MS == 5000

\* ----------------------------------------------------------- configuration
\* COLLECTIONS: one book-based collection and one flat collection, in the
\* order of Object.keys(COLLECTIONS).
CollectionIds == <<"A", "F">>

\* "B" is a second book-based collection, given to rescrape-one only
ConfigBooks(c) == IF c \in {"A", "B"} THEN [k \in 1..NumBooks |-> k] ELSE <<>>

\* config.books === null
IsFlat(c) == c = "F"

\* `${BASE_URL}/${config.slug}/${book}`, `${BASE_URL}/${config.slug}` (book 0)
Url(c, book) == <<c, book>>

SeqToSet(s) == {s[k] : k \in 1..Len(s)}

\* every page the scraper can ask for
Urls ==
    {Url(c, 0) : c \in {d \in SeqToSet(CollectionIds) : IsFlat(d)}}
    \cup UNION {{Url(c, b) : b \in SeqToSet(ConfigBooks(c))} : c \in SeqToSet(CollectionIds)}

Includes(s, x) == \E k \in 1..Len(s) : s[k] = x

\* ------------------------------------------------------------------ files
\* A file that cannot be read: it is absent, or a kill cut its write short
\* and JSON.parse throws on what is left.  The code treats both alike
\* (loadState and loadBookData catch every error).
NoFile == [kind |-> "none"]

File(d) == [kind |-> "ok", data |-> d]

\* the null of an object-typed value
Null == [kind |-> "null"]

\* Deno.readTextFile + JSON.parse succeed
Readable(f) == f.kind = "ok"

\* ------------------------------------------------------------ the network
\* What a URL serves.  "any": nothing is assumed of it; each attempt may
\* fail, return a page on which the parser throws ("bad"), or return the
\* page as it stands at the time of the command, which differs from what any
\* other command saw (the version is the number of the command; the scraper
\* never looks into a page, and one command never gets the same page twice).
\* "down": every attempt fails.  "bad", "ok": after at most MAX_RETRIES - 1
\* failed attempts the same page is served each time: one on which the
\* parser throws, or version 0 of a page that parses.
Failed == [kind |-> "fail", version |-> 0]

BadPage == [kind |-> "bad", version |-> 0]

Page(v) == [kind |-> "page", version |-> v]

AttemptOutcomes(o, a, r) ==
    IF o = "any" THEN {Failed, BadPage, Page(r)}
    ELSE IF o = "down" THEN {Failed}
    ELSE LET served == IF o = "bad" THEN BadPage ELSE Page(0)
         IN  IF a < MAX_RETRIES THEN {served, Failed} ELSE {served}

VARIABLES
    stateFile,    \* data/scraper-state.json
    bookCache,    \* data/books/<collection>/<book>.json
    collFile,     \* data/collections/<collection>.json
    errorLog,     \* data/errors.log: the lines appended since the command started
    site,         \* what each URL serves
    run,          \* number of commands started so far (the clock of timestamps)
    pc,           \* where the running command stands
    cmd,          \* the command of main.ts that is running
    remaining,    \* scrapeAllCollections: collections still to scrape
    cur,          \* scrapeCollection: collectionId
    state,        \* the in-memory ScraperState
    i,            \* scrapeCollectionWithBooks: loop index
    books,        \* scrapeCollectionWithBooks: the local books array
    attempt,      \* fetchWithRetry: attempt
    scraped,      \* scrapeBook's result
    result,       \* scrapeCollection: result
    err,          \* the error handed to recordError
    trace,        \* the requests and sleeps of the current fetchWithRetry call
    sinceFetch,   \* time since the last request of this collection run, capped
    ioFault       \* the file operation that failed last in this command

VARIABLES
    rs,           \* rescrape-one.ts: the state of each of its processes
    parse         \* parser.ts: the call in progress, its arguments and locals

\* the variables of the programs other than the orchestrator
ext == <<rs, parse>>

disk == <<stateFile, bookCache, collFile, errorLog>>

locals == <<remaining, cur, state, i, books, attempt, scraped, result, err, trace, sinceFetch>>

vars == <<stateFile, bookCache, collFile, errorLog, site, run, pc, cmd, remaining, cur,
          state, i, books, attempt, scraped, result, err, trace, sinceFetch, ioFault,
          rs, parse>>

\* the variables of the orchestrator's process
orchestrator == <<run, pc, cmd, remaining, cur, state, i, books, attempt, scraped, result,
                  err, trace, sinceFetch, ioFault>>

\* ------------------------------------------------------------- state.ts
\* the fresh state of loadState's catch branch and of resetState
FreshState ==
    [current_collection |-> "null", completed_collections |-> <<>>,
     completed_books |-> <<>>, errors |-> <<>>]

loadState(f) == IF Readable(f) THEN f.data ELSE FreshState

\* a cache that is never read back
loadBookDataLost(f) == Null

loadBookData(f) == IF Readable(f) THEN f.data ELSE Null

\* saveState: Deno.writeTextFile(STATE_FILE, JSON.stringify(state))
saveState(st) == File(st)

\* saveBookData: Deno.writeTextFile(`books/${collectionId}/${book}.json`, ...)
saveBookData(cache, c, book, data) == [cache EXCEPT ![c][book] = File(data)]

\* saveCollectionData: Deno.writeTextFile(`collections/${id}.json`, ...)
\* an aggregate that is never written
saveCollectionDataSkipped(files, data) == files

saveCollectionData(files, data) == [files EXCEPT ![data.id] = File(data)]

\* a book that is never marked done
markBookCompletedNever(st, book) == st

markBookCompleted(st, book) ==
    IF ~Includes(st.completed_books, book)
    THEN [st EXCEPT !.completed_books = Append(@, book)]
    ELSE st

\* completed_collections assigned instead of pushed to
markCollectionCompletedOnly(st, c) ==
    [st EXCEPT !.completed_collections = <<c>>,
               !.current_collection = "null",
               !.completed_books = <<>>]

\* completed_books left as it is
markCollectionCompletedKeepsBooks(st, c) ==
    [st EXCEPT !.completed_collections = IF ~Includes(@, c) THEN Append(@, c) ELSE @,
               !.current_collection = "null"]

\* current_collection left as it is
markCollectionCompletedKeepsCurrent(st, c) ==
    [st EXCEPT !.completed_collections = IF ~Includes(@, c) THEN Append(@, c) ELSE @,
               !.completed_books = <<>>]

markCollectionCompleted(st, c) ==
    [st EXCEPT !.completed_collections = IF ~Includes(@, c) THEN Append(@, c) ELSE @,
               !.current_collection = "null",
               !.completed_books = <<>>]

\* completed_books kept when the collection changes
startCollectionKeepsBooks(st, c) ==
    IF st.current_collection # c
    THEN [st EXCEPT !.current_collection = c]
    ELSE st

\* completed_books emptied on every start, also of the same collection
startCollectionClearsAlways(st, c) ==
    [st EXCEPT !.current_collection = c, !.completed_books = <<>>]

startCollection(st, c) ==
    IF st.current_collection # c
    THEN [st EXCEPT !.current_collection = c, !.completed_books = <<>>]
    ELSE st

\* recordError: fullError = {...error, timestamp}, state.errors.push(fullError)
FullError(e, ts) ==
    [collection |-> e.collection, book |-> e.book, error_type |-> e.error_type,
     message |-> e.message, url |-> e.url, timestamp |-> ts]

pushError(st, e, ts) == [st EXCEPT !.errors = Append(@, FullError(e, ts))]

toUpperCase(t) == IF t = "fetch" THEN "FETCH" ELSE IF t = "parse" THEN "PARSE" ELSE "VALIDATION"

\* a log that is overwritten
overwriteLog(log, line) == <<line>>

\* recordError: Deno.writeTextFile(ERRORS_FILE, logLine, { append: true })
appendLog(log, line) == Append(log, line)

\* recordError: the line appended to the error log (a null book, 0 here, prints as "?")
LogLine(fe) ==
    [timestamp |-> fe.timestamp, error_type |-> toUpperCase(fe.error_type),
     unit |-> <<fe.collection, fe.book>>,
     message |-> fe.message, url |-> fe.url]

NoError == [collection |-> "null", book |-> 0, error_type |-> "none",
            message |-> "none", url |-> <<"null", 0>>]

\* ------------------------------------------------------------ scraper.ts
\* a scrapeCollection that scrapes completed collections again
AlreadyCompletedNever(st, c) == FALSE

\* scrapeCollection: state.completed_collections.includes(collectionId)
AlreadyCompleted(st, c) == Includes(st.completed_collections, c)

\* scrapeCollectionWithBooks: state.completed_books.includes(book)
BookCompleted(st, book) == Includes(st.completed_books, book)

\* a scrapeBook that ignores the cache
UseCacheNever(existing) == FALSE

\* scrapeBook: if (existing)
UseCache(existing) == existing # Null

\* a retry loop that never sees its last attempt
IsLastAttemptNever(a) == a = MAX_RETRIES + 1

\* fetchWithRetry: attempt === MAX_RETRIES
IsLastAttempt(a) == a = MAX_RETRIES

\* a rate limit that stops one book early
NeedsRateLimitEarly(idx, n) == idx < n - 2

\* scrapeCollectionWithBooks: i < config.books.length - 1
NeedsRateLimit(idx, n) == idx < n - 1

\* scrapeBook: the ScrapedBook built from the parsed page
ScrapedBook(book, page) == [kind |-> "book", book_number |-> book, page |-> page]

\* sleep(ms) as seen by the time since the last request
Slept(t, ms) == IF t < 0 THEN t ELSE IF t + ms > RATE_LIMIT_MS THEN RATE_LIMIT_MS ELSE t + ms

NoLocals ==
    /\ remaining = <<>> /\ cur = "null" /\ state = FreshState /\ i = 0 /\ books = <<>>
    /\ attempt = 0 /\ scraped = Null /\ result = Null
    /\ err = NoError /\ trace = <<>> /\ sinceFetch = -1

\* rescrape-one.ts: the processes, and a process that was not started
RsProcs == {1, 2}

RsOff ==
    [pc |-> "off", collectionId |-> "null", i |-> 0, attempt |-> 0, books |-> <<>>,
     scrapedBook |-> Null, result |-> Null, written |-> {}]

\* nothing but the orchestrator runs
\* parser.ts: no call in progress
ParseIdle == [fn |-> "none"]

ExtIdle == rs = [p \in RsProcs |-> RsOff] /\ parse = ParseIdle

\* an empty data directory and no command started yet
InitOrchestrator ==
    /\ stateFile = NoFile
    /\ bookCache = [c \in SeqToSet(CollectionIds) |-> [b \in SeqToSet(ConfigBooks(c)) |-> NoFile]]
    /\ collFile = [c \in SeqToSet(CollectionIds) |-> NoFile]
    /\ errorLog = <<>>
    /\ run = 0
    /\ pc = "idle"
    /\ cmd = "none"
    /\ ioFault = "none"
    /\ NoLocals

InitRest == InitOrchestrator /\ ExtIdle

\* nothing is assumed of the site
Init ==
    /\ site = [u \in Urls |-> "any"]
    /\ InitRest

\* every fetchWithRetry of a URL ends the same way each time it is called
InitStable ==
    /\ site \in [Urls -> {"down", "bad", "ok"}]
    /\ InitRest

ResetLocals ==
    /\ remaining' = <<>> /\ state' = FreshState /\ i' = 0 /\ books' = <<>>
    /\ attempt' = 0 /\ scraped' = Null /\ result' = Null
    /\ err' = NoError /\ trace' = <<>> /\ sinceFetch' = -1

\* the book of the current loop iteration; 0 is the null book of a flat page
CurBook == IF IsFlat(cur) THEN 0 ELSE ConfigBooks(cur)[i + 1]

\* book.chapters.length and book.hadiths.length (hadiths.length of a flat
\* page, whose book is 0): the scraper never looks into a page, which the
\* model knows by its book and its version; its chapters and units are
\* counted from these, differently for different pages.
PageCounts(book, page) == [chapters |-> page + 1, hadiths |-> book + 2 * page + 1]

\* total_books counted from the configuration
BookAggregateOfConfigured(c, bks) ==
    [kind |-> "collection", id |-> c, books |-> bks,
     total_books |-> Len(ConfigBooks(c)), total_chapters |-> 0, total_hadiths |-> 0]

\* scrapeCollectionWithBooks: the ScrapedCollection returned, with the stats
\* summed by the loop over books
BookAggregate(c, bks) ==
    LET RECURSIVE Total(_)
        Total(k) ==
            IF k = 0 THEN [chapters |-> 0, hadiths |-> 0]
            ELSE LET counts == PageCounts(bks[k].book_number, bks[k].page)
                 IN  [chapters |-> Total(k - 1).chapters + counts.chapters,
                      hadiths |-> Total(k - 1).hadiths + counts.hadiths]
    IN  [kind |-> "collection", id |-> c, books |-> bks, total_books |-> Len(bks),
         total_chapters |-> Total(Len(bks)).chapters,
         total_hadiths |-> Total(Len(bks)).hadiths]

\* scrapeFlatCollection: the ScrapedCollection returned
FlatAggregate(c, page) ==
    [kind |-> "collection", id |-> c, books |-> Null, hadiths |-> page, total_books |-> 0,
     total_chapters |-> 0, total_hadiths |-> PageCounts(0, page).hadiths]

\* parseBookPage / parseFlatCollectionPage throw on this page
ParseThrows(page) == page.kind = "bad"

\* ---------------------------------------------------------------- main.ts
\* deno task scrape | scrape <collection> | scrape --reset
Commands == {"all", "reset"} \cup SeqToSet(CollectionIds)

StartCommand ==
    /\ pc \in {"idle", "done", "aborted"}
    /\ run < MaxRuns
    /\ run' = run + 1
    /\ ioFault' = "none"
    /\ \E c \in Commands :
         /\ cmd' = c
         /\ pc' = IF c = "all" THEN "all_load" ELSE IF c = "reset" THEN "reset" ELSE "sc_load"
         /\ cur' = IF c \in SeqToSet(CollectionIds) THEN c ELSE "null"
    /\ ResetLocals
    /\ errorLog' = <<>>
    /\ UNCHANGED <<stateFile, bookCache, collFile, site>>
    /\ UNCHANGED ext

\* --------------------------------------------------- scrapeAllCollections
\* for (const collectionId of remaining) await scrapeCollection(collectionId),
\* then the final summary
NextCollection(rem) ==
    IF rem = <<>>
    THEN /\ pc' = "done"
         /\ remaining' = rem
         /\ UNCHANGED cur
    ELSE /\ cur' = Head(rem)
         /\ remaining' = Tail(rem)
         /\ pc' = "sc_load"

AllLoad ==
    /\ pc = "all_load"
    /\ NextCollection(SelectSeq(CollectionIds,
                                LAMBDA id : ~AlreadyCompleted(loadState(stateFile), id)))
    /\ UNCHANGED <<disk, site, run, cmd, state, i, books, attempt, scraped,
                   result, err, trace, sinceFetch, ioFault>>
    /\ UNCHANGED ext

\* ------------------------------------------------------- scrapeCollection
\* scrapeCollection returns to main or to scrapeAllCollections' loop
ScReturn ==
    IF cmd = "all"
    THEN NextCollection(remaining)
    ELSE /\ pc' = "done"
         /\ UNCHANGED <<cur, remaining>>

ScLoad ==
    /\ pc = "sc_load"
    /\ state' = loadState(stateFile)
    /\ pc' = IF AlreadyCompleted(state', cur) THEN "sc_skip" ELSE "sc_start"
    /\ i' = 0 /\ books' = <<>> /\ attempt' = 0 /\ scraped' = Null
    /\ result' = Null /\ err' = NoError /\ trace' = <<>> /\ sinceFetch' = -1
    /\ UNCHANGED <<disk, site, run, cmd, remaining, cur, ioFault>>
    /\ UNCHANGED ext

\* "already completed": return null
ScSkip ==
    /\ pc = "sc_skip"
    /\ ScReturn
    /\ UNCHANGED <<disk, site, run, cmd, state, i, books, attempt, scraped, result, err,
                   trace, sinceFetch, ioFault>>
    /\ UNCHANGED ext

ScStart ==
    /\ pc = "sc_start"
    /\ state' = startCollection(state, cur)
    /\ stateFile' = saveState(state')
    /\ IF IsFlat(cur)
       THEN /\ attempt' = 1
            /\ pc' = "fetch"
       ELSE /\ attempt' = 0
            /\ pc' = "loop"
    /\ UNCHANGED <<bookCache, collFile, errorLog, site, run, cmd, remaining, cur, i, books,
                   scraped, result, err, trace, sinceFetch, ioFault>>
    /\ UNCHANGED ext

\* ----------------------------------------------- scrapeCollectionWithBooks
\* i++ and the loop test; after the loop, the stats and the returned
\* aggregate, which scrapeCollection goes on to save
Advance(bks) ==
    /\ i' = i + 1
    /\ IF i + 1 < Len(ConfigBooks(cur))
       THEN /\ pc' = "loop"
            /\ UNCHANGED result
       ELSE /\ result' = BookAggregate(cur, bks)
            /\ pc' = "sc_savecoll"

\* a loop that a failed book ends
EndIterationStopsOnError(bks) ==
    IF err # NoError
    THEN /\ result' = BookAggregate(cur, bks)
         /\ pc' = "sc_savecoll"
         /\ UNCHANGED i
    ELSE IF NeedsRateLimit(i, Len(ConfigBooks(cur)))
         THEN /\ pc' = "rate_sleep"
              /\ UNCHANGED <<i, result>>
         ELSE Advance(bks)

\* the rate limiting that ends an iteration which went through scrapeBook
EndIteration(bks) ==
    IF NeedsRateLimit(i, Len(ConfigBooks(cur)))
    THEN /\ pc' = "rate_sleep"
         /\ UNCHANGED <<i, result>>
    ELSE Advance(bks)

\* The head of an iteration up to its loadBookData: of the "already
\* completed" branch, or of scrapeBook.
Loop ==
    /\ pc = "loop"
    /\ LET cached == loadBookData(bookCache[cur][CurBook])
       IN  IF BookCompleted(state, CurBook)
           THEN /\ books' = IF cached # Null THEN Append(books, cached) ELSE books
                /\ Advance(books')
                /\ UNCHANGED <<scraped, attempt>>
           ELSE IF UseCache(cached)
           THEN /\ scraped' = cached
                /\ pc' = "after_book"
                /\ UNCHANGED <<i, books, result, attempt>>
           ELSE /\ attempt' = 1
                /\ pc' = "fetch"
                /\ UNCHANGED <<i, books, result, scraped>>
    /\ UNCHANGED <<disk, site, run, cmd, remaining, cur, state, err, trace, sinceFetch,
                   ioFault>>
    /\ UNCHANGED ext

\* scrapeBook returned a book: books.push and markBookCompleted
AfterBook ==
    /\ pc = "after_book"
    /\ books' = Append(books, scraped)
    /\ state' = markBookCompleted(state, CurBook)
    /\ stateFile' = saveState(state')
    /\ scraped' = Null
    /\ EndIteration(books')
    /\ UNCHANGED <<bookCache, collFile, errorLog, site, run, cmd, remaining, cur, attempt,
                   err, trace, sinceFetch, ioFault>>
    /\ UNCHANGED ext

RateSleep ==
    /\ pc = "rate_sleep"
    /\ sinceFetch' = Slept(sinceFetch, RATE_LIMIT_MS)
    /\ Advance(books)
    /\ UNCHANGED <<disk, site, run, cmd, remaining, cur, state, books, attempt, scraped,
                   err, trace, ioFault>>
    /\ UNCHANGED ext

\* ------------------------------------------------------------- scrapeBook
SbSave ==
    /\ pc = "sb_save"
    /\ bookCache' = saveBookData(bookCache, cur, CurBook, scraped)
    /\ pc' = "after_book"
    /\ trace' = <<>>
    /\ UNCHANGED <<stateFile, collFile, errorLog, site, run, cmd, remaining, cur, state, i,
                   books, attempt, scraped, result, err, sinceFetch, ioFault>>
    /\ UNCHANGED ext

\* --------------------------------------------------------- fetchWithRetry
\* One attempt, and what its caller does with the page: scrapeBook and
\* scrapeFlatCollection parse it at once.
Fetch ==
    /\ pc = "fetch"
    /\ \E o \in AttemptOutcomes(site[Url(cur, CurBook)], attempt, run) :
         /\ trace' = Append(trace, IF o = Failed THEN "fail" ELSE "ok")
         /\ IF o # Failed
            THEN IF ParseThrows(o)
                 THEN /\ err' = [collection |-> cur, book |-> CurBook,
                                 error_type |-> "parse", message |-> "parse",
                                 url |-> Url(cur, CurBook)]
                      /\ pc' = "rec_save"
                      /\ UNCHANGED <<scraped, result>>
                 ELSE IF IsFlat(cur)
                 THEN /\ result' = FlatAggregate(cur, o.version)
                      /\ pc' = "sc_savecoll"
                      /\ UNCHANGED <<scraped, err>>
                 ELSE /\ scraped' = ScrapedBook(CurBook, o.version)
                      /\ pc' = "sb_save"
                      /\ UNCHANGED <<result, err>>
            ELSE IF IsLastAttempt(attempt)
            THEN /\ err' = [collection |-> cur, book |-> CurBook, error_type |-> "fetch",
                            message |-> "fail", url |-> Url(cur, CurBook)]
                 /\ pc' = "rec_save"
                 /\ UNCHANGED <<scraped, result>>
            ELSE /\ pc' = "retry_sleep"
                 /\ UNCHANGED <<scraped, result, err>>
    /\ sinceFetch' = 0
    /\ UNCHANGED <<disk, site, run, cmd, remaining, cur, state, i, books, attempt, ioFault>>
    /\ UNCHANGED ext

\* sleep(RETRY_DELAY_MS), attempt++ and the loop test; the return null after
\* the loop is taken only if the loop ends without a return inside it
RetrySleep ==
    /\ pc = "retry_sleep"
    /\ sinceFetch' = Slept(sinceFetch, RETRY_DELAY_MS)
    /\ attempt' = attempt + 1
    /\ trace' = Append(trace, "sleep")
    /\ IF attempt + 1 <= MAX_RETRIES
       THEN /\ pc' = "fetch"
            /\ UNCHANGED <<i, result, cur, remaining>>
       ELSE IF IsFlat(cur)
       THEN /\ ScReturn
            /\ UNCHANGED <<i, result>>
       ELSE /\ EndIteration(books)
            /\ UNCHANGED <<cur, remaining>>
    /\ UNCHANGED <<disk, site, run, cmd, state, books, scraped, err, ioFault>>
    /\ UNCHANGED ext

\* ------------------------------------------------------------ recordError
\* state.errors.push(fullError) and saveState
RecSave ==
    /\ pc = "rec_save"
    /\ state' = pushError(state, err, run)
    /\ stateFile' = saveState(state')
    /\ pc' = "rec_log"
    /\ trace' = <<>>
    /\ UNCHANGED <<bookCache, collFile, errorLog, site, run, cmd, remaining, cur, i, books,
                   attempt, scraped, result, err, sinceFetch, ioFault>>
    /\ UNCHANGED ext

\* The append to the error log; then fetchWithRetry, scrapeBook or
\* scrapeFlatCollection return null.
RecLog ==
    /\ pc = "rec_log"
    /\ errorLog' = appendLog(errorLog, LogLine(FullError(err, run)))
    /\ err' = NoError
    /\ IF IsFlat(cur)
       THEN /\ ScReturn
            /\ UNCHANGED <<i, result>>
       ELSE /\ EndIteration(books)
            /\ UNCHANGED <<cur, remaining>>
    /\ UNCHANGED <<stateFile, bookCache, collFile, site, run, cmd, state, books, attempt,
                   scraped, trace, sinceFetch, ioFault>>
    /\ UNCHANGED ext

\* ----------------------------------------------- scrapeCollection, the end
ScSaveColl ==
    /\ pc = "sc_savecoll"
    /\ collFile' = saveCollectionData(collFile, result)
    /\ pc' = "sc_mark"
    /\ trace' = <<>>
    /\ UNCHANGED <<stateFile, bookCache, errorLog, site, run, cmd, remaining, cur, state, i,
                   books, attempt, scraped, result, err, sinceFetch, ioFault>>
    /\ UNCHANGED ext

ScMark ==
    /\ pc = "sc_mark"
    /\ state' = markCollectionCompleted(state, cur)
    /\ stateFile' = saveState(state')
    /\ ScReturn
    /\ UNCHANGED <<bookCache, collFile, errorLog, site, run, cmd, i, books,
                   attempt, scraped, result, err, trace, sinceFetch, ioFault>>
    /\ UNCHANGED ext

\* -------------------------------------------------------------- resetState
Reset ==
    /\ pc = "reset"
    /\ stateFile' = saveState(FreshState)
    /\ pc' = "done"
    /\ UNCHANGED <<bookCache, collFile, errorLog, site, run, cmd, locals, ioFault>>
    /\ UNCHANGED ext

\* ------------------------------------------------------------ process kill
\* the step at pc writes the state file (saveState)
WritesState == pc \in {"sc_start", "after_book", "rec_save", "sc_mark", "reset"}

Running == pc \notin {"idle", "done", "aborted"}

\* The process is killed: its memory is lost; a write it was in the middle of
\* leaves its file truncated.
Crash ==
    /\ Running
    /\ pc' = "idle"
    /\ cmd' = "none"
    /\ cur' = "null"
    /\ ResetLocals
    /\ stateFile' \in (IF WritesState THEN {stateFile, NoFile} ELSE {stateFile})
    /\ bookCache' \in (IF pc = "sb_save"
                       THEN {bookCache, [bookCache EXCEPT ![cur][CurBook] = NoFile]}
                       ELSE {bookCache})
    /\ collFile' \in (IF pc = "sc_savecoll"
                      THEN {collFile, [collFile EXCEPT ![cur] = NoFile]}
                      ELSE {collFile})
    /\ UNCHANGED <<errorLog, site, run, ioFault>>
    /\ UNCHANGED ext

Next ==
    \/ StartCommand
    \/ AllLoad
    \/ ScLoad \/ ScSkip \/ ScStart
    \/ Loop \/ AfterBook \/ RateSleep \/ SbSave
    \/ Fetch \/ RetrySleep \/ RecSave \/ RecLog
    \/ ScSaveColl \/ ScMark
    \/ Reset
    \/ Crash

\* ------------------------------------------------------- file I/O failures
\* loadState's catch: any failure to read or parse the state file gives the
\* fresh state, and the run goes on
LoadStateFails ==
    /\ pc \in {"all_load", "sc_load"}
    /\ Readable(stateFile)
    /\ ioFault' = "state_read"
    /\ IF pc = "all_load"
       THEN /\ NextCollection(SelectSeq(CollectionIds,
                                        LAMBDA id : ~AlreadyCompleted(FreshState, id)))
            /\ UNCHANGED state
       ELSE /\ state' = FreshState
            /\ pc' = IF AlreadyCompleted(state', cur) THEN "sc_skip" ELSE "sc_start"
            /\ UNCHANGED <<cur, remaining>>
    /\ UNCHANGED <<disk, site, run, cmd, i, books, attempt, scraped, result, err, trace,
                   sinceFetch>>
    /\ UNCHANGED ext

\* saveState throws: no caller catches it, main logs "Fatal error" and exits
SaveStateFails ==
    /\ WritesState
    /\ ioFault' = "state_write"
    /\ pc' = "aborted"
    /\ UNCHANGED <<disk, site, run, cmd, locals>>
    /\ UNCHANGED ext

\* saveBookData throws inside scrapeBook's try: caught, recorded as a parse
\* error, and scrapeBook returns null
SaveBookFails ==
    /\ pc = "sb_save"
    /\ ioFault' = "cache_write"
    /\ err' = [collection |-> cur, book |-> CurBook, error_type |-> "parse",
               message |-> "io", url |-> Url(cur, CurBook)]
    /\ scraped' = Null
    /\ pc' = "rec_save"
    /\ UNCHANGED <<disk, site, run, cmd, remaining, cur, state, i, books, attempt, result,
                   trace, sinceFetch>>
    /\ UNCHANGED ext

\* the append to the error log throws: recordError has no catch around it
LogWriteFails ==
    /\ pc = "rec_log"
    /\ ioFault' = "log_write"
    /\ pc' = "aborted"
    /\ UNCHANGED <<disk, site, run, cmd, locals>>
    /\ UNCHANGED ext

\* saveCollectionData throws: scrapeCollection has no catch around it
SaveCollFails ==
    /\ pc = "sc_savecoll"
    /\ ioFault' = "output_write"
    /\ pc' = "aborted"
    /\ UNCHANGED <<disk, site, run, cmd, locals>>
    /\ UNCHANGED ext

NextIO ==
    \/ Next
    \/ LoadStateFails \/ SaveStateFails \/ SaveBookFails \/ LogWriteFails \/ SaveCollFails

\* kills and restarts, any site
Spec == Init /\ [][Next]_vars

\* kills and restarts, a site that serves each URL the same way every time
SpecStable == InitStable /\ [][Next]_vars

\* kills, restarts and failing file operations
SpecIO == Init /\ [][NextIO]_vars

\* ================================================================= claims
BookBased == {c \in SeqToSet(CollectionIds) : ~IsFlat(c)}

\* the books of an aggregate, as book numbers
BookNumbers(bks) == [k \in 1..Len(bks) |-> bks[k].book_number]

\* the persisted state as the next command will load it
Persisted == loadState(stateFile)

\* the entries of an error list that the running command recorded
ErrorsOfRun(errors) == SelectSeq(errors, LAMBDA e : e.timestamp = run)

\* in the book loop of a book-based collection
InBookRun == cur \in BookBased /\ pc \in {"loop", "fetch", "retry_sleep", "rec_save",
                                          "rec_log", "sb_save", "after_book", "rate_sleep"}

\* C1: in a book-based run, a request is issued for a book (and the book is
\* scraped anew) only when its cache entry cannot be read at the moment the
\* book is processed; every record placed in the aggregate is the record the
\* cache holds for that book, so a book whose cache entry exists is taken from
\* the cache and a restarted run requests none of the books persisted before.
C1_CachedBookNotFetched ==
    /\ (cur \in BookBased /\ pc \in {"fetch", "retry_sleep", "sb_save"})
          => ~Readable(bookCache[cur][CurBook])
    /\ (cur \in BookBased /\ pc \in {"loop", "fetch", "retry_sleep", "rec_save", "rec_log",
                                     "sb_save", "rate_sleep", "sc_savecoll"})
          => \A k \in 1..Len(books) :
                bookCache[cur][books[k].book_number] = File(books[k])
    /\ (cur \in BookBased /\ pc = "after_book")
          => bookCache[cur][CurBook] = File(scraped)
    /\ (cur \in BookBased /\ pc \in {"sc_savecoll", "sc_mark"}) => result.books = books

\* C1 witness: a restarted command places in the aggregate a record that an
\* earlier command persisted (the page version is the number of the command
\* that fetched it).
C1_Witness ==
    /\ cur \in BookBased /\ pc = "sc_savecoll" /\ run = 2
    /\ Len(books) = NumBooks
    /\ books[1].page = 1
    /\ books[NumBooks].page = 2

\* C2: under a site that serves each URL the same way every time, whatever
\* kills and restarts came before, the aggregate written for the book-based
\* collection is the one an uninterrupted run writes: the configured books
\* whose page is served and parses, in the configured order, with the units
\* of that page.
ExpectedBooks(c) ==
    LET ok == SelectSeq(ConfigBooks(c), LAMBDA b : site[Url(c, b)] = "ok")
    IN  [k \in 1..Len(ok) |-> ScrapedBook(ok[k], 0)]

C2_ResumedAggregateSame ==
    \A c \in BookBased :
        Readable(collFile[c]) =>
            /\ collFile[c].data.books = ExpectedBooks(c)
            /\ collFile[c].data.id = c

\* C2 witness: the second command writes the aggregate without a request:
\* all the books were persisted by the first command, which was killed
\* before it wrote the aggregate.
C2_Witness ==
    /\ run = 2 /\ cur \in BookBased /\ pc = "sc_mark"
    /\ sinceFetch = -1
    /\ Len(result.books) = NumBooks
    /\ Readable(collFile[cur])

\* C3: when the page of book K is down (every attempt fails), the run still
\* goes through the books after K (each is in the aggregate, or has its own
\* error entry of this run), K is not in the aggregate, and the state holds
\* exactly one fetch error entry of this run for K.
C3_FetchFailureIsolated ==
    (cur \in BookBased /\ pc = "sc_savecoll") =>
        \A K \in SeqToSet(ConfigBooks(cur)) :
            site[Url(cur, K)] = "down" =>
                /\ ~Includes(BookNumbers(result.books), K)
                /\ Len(SelectSeq(ErrorsOfRun(state.errors),
                                 LAMBDA e : e.collection = cur /\ e.book = K)) = 1
                /\ \E e \in SeqToSet(ErrorsOfRun(state.errors)) :
                      e.collection = cur /\ e.book = K /\ e.error_type = "fetch"
                /\ \A j \in SeqToSet(ConfigBooks(cur)) :
                      j > K =>
                          \/ Includes(BookNumbers(result.books), j)
                          \/ \E e \in SeqToSet(ErrorsOfRun(state.errors)) :
                                e.collection = cur /\ e.book = j

\* C3 witness: book 1 is down, the last book is served, and the run ends with
\* the last book in the aggregate.
C3_Witness ==
    /\ cur \in BookBased /\ pc = "sc_savecoll"
    /\ site[Url(cur, 1)] = "down"
    /\ site[Url(cur, NumBooks)] = "ok"
    /\ Includes(BookNumbers(result.books), NumBooks)

\* scrapeAllCollections has returned
AllReturned == cmd = "all" /\ pc = "done"

CompletedBooksCached(st) ==
    \A b \in SeqToSet(st.completed_books) :
        /\ st.current_collection \in BookBased
        /\ b \in SeqToSet(ConfigBooks(st.current_collection))
        /\ Readable(bookCache[st.current_collection][b])

C5_CompletedBooksPersisted ==
    /\ CompletedBooksCached(Persisted)
    /\ CompletedBooksCached(state)

\* C5 witness: the process was killed with a book marked done in the persisted
\* state.
C5_Witness ==
    /\ pc = "idle" /\ run > 0
    /\ Persisted.completed_books # <<>>

\* C6 as stated: the run is aborted by a failure to read or to write the state
\* file and by no other failure: an aborted run has a state-file failure
\* behind it, and a state-file failure leaves the run aborted.
C6_OnlyStateFileIOAborts ==
    /\ pc = "aborted" => ioFault \in {"state_read", "state_write"}
    /\ ioFault \in {"state_read", "state_write"} => pc = "aborted"

\* the lines the error log must hold for a list of errors
LogLines(errors) == [k \in 1..Len(errors) |-> LogLine(errors[k])]

\* C7: an attempt that exhausts the retries, or a page whose parsing throws,
\* calls recordError once with the collection, the unit, the kind, a message
\* and the URL, and nothing else calls it; recordError pushes exactly that
\* error, stamped, to the state's errors and saves the state, then appends
\* exactly its line to the log; the log changes in no other way; so outside
\* recordError the log lines of the running command are the lines of the
\* state's errors of that command, one each, in order.
C7_ErrorsRecordedOnce ==
    /\ [](pc \in {"sc_start", "loop", "fetch", "retry_sleep", "rec_save", "sb_save",
                  "after_book", "rate_sleep", "sc_savecoll", "sc_mark"}
            => errorLog = LogLines(ErrorsOfRun(state.errors)))
    /\ [](pc = "rec_log"
            => /\ state.errors # <<>>
               /\ state.errors[Len(state.errors)] = FullError(err, run)
               /\ Persisted = state
               /\ Append(errorLog, LogLine(FullError(err, run)))
                     = LogLines(ErrorsOfRun(state.errors)))
    /\ [][(pc = "fetch" /\ trace' = Append(trace, "fail") /\ attempt = MAX_RETRIES)
            => /\ pc' = "rec_save"
               /\ err' = [collection |-> cur, book |-> CurBook, error_type |-> "fetch",
                          message |-> "fail", url |-> Url(cur, CurBook)]]_vars
    /\ [][(pc = "fetch" /\ trace' = Append(trace, "ok") /\ scraped' = Null /\ result' = Null)
            => /\ pc' = "rec_save"
               /\ err' = [collection |-> cur, book |-> CurBook, error_type |-> "parse",
                          message |-> "parse", url |-> Url(cur, CurBook)]]_vars
    /\ [][pc' = "rec_save"
            => /\ pc = "fetch"
               /\ \/ trace' = Append(trace, "fail") /\ attempt = MAX_RETRIES
                  \/ trace' = Append(trace, "ok") /\ scraped' = Null /\ result' = Null]_vars
    /\ [][(pc = "rec_save" /\ pc' # "idle")
            => /\ pc' = "rec_log"
               /\ state'.errors = Append(state.errors, FullError(err, run))
               /\ stateFile' = File(state')
               /\ err' = err]_vars
    /\ [][(run' = run /\ errorLog' # errorLog)
            => /\ pc = "rec_log"
               /\ errorLog' = Append(errorLog, LogLine(FullError(err, run)))]_vars

\* C7 witness: a fetch failure of book 1 and a parse failure of the last book
\* are in the state and in the log, and the collection's run goes on.
C7_Witness ==
    /\ cur \in BookBased /\ pc = "sc_savecoll"
    /\ Len(errorLog) = 2
    /\ errorLog[1].error_type = "FETCH" /\ errorLog[1].unit = <<cur, 1>>
    /\ errorLog[2].error_type = "PARSE" /\ errorLog[2].unit = <<cur, NumBooks>>
    /\ Len(ErrorsOfRun(state.errors)) = 2

\* C8: the first request for a book comes RATE_LIMIT_MS or more after the
\* last request of this collection's run, if there was one; the loop goes
\* from a book that went through scrapeBook to the next iteration without
\* the sleep only after the last book.
C8_RateLimitBetweenBooks ==
    /\ []((cur \in BookBased /\ pc = "fetch" /\ attempt = 1)
            => sinceFetch \in {-1, RATE_LIMIT_MS})
    /\ [](pc = "rate_sleep" => i < Len(ConfigBooks(cur)) - 1)
    /\ [][(cur \in BookBased /\ pc \in {"after_book", "rec_log"}
             /\ pc' \in {"loop", "sc_savecoll"})
            => /\ i = Len(ConfigBooks(cur)) - 1
               /\ pc' = "sc_savecoll"]_vars
    /\ [][(pc = "rate_sleep" /\ pc' # "idle")
            => sinceFetch' = Slept(sinceFetch, RATE_LIMIT_MS)]_vars

\* C8 witness: the request for the second book, after the first book's request
\* and the sleep.
C8_Witness ==
    /\ cur \in BookBased /\ pc = "fetch" /\ attempt = 1
    /\ i = 1 /\ sinceFetch = RATE_LIMIT_MS /\ Len(books) = 1 /\ books[1].page = run

\* k failed requests, each followed by the retry delay
FailedAttempts(k) == [j \in 1..(2 * k) |-> IF j % 2 = 1 THEN "fail" ELSE "sleep"]

\* C9: fetchWithRetry makes at most MAX_RETRIES requests, returns at the
\* first one that succeeds, sleeps after every failed request but the last,
\* and every step of it makes its trace longer, which is at most
\* 2 * MAX_RETRIES - 1 long: it returns, given that each request settles.
C9_FetchWithRetryBounded ==
    /\ [](pc = "fetch"
            => attempt \in 1..MAX_RETRIES /\ trace = FailedAttempts(attempt - 1))
    /\ [](pc = "retry_sleep"
            => /\ attempt \in 1..(MAX_RETRIES - 1)
               /\ trace = FailedAttempts(attempt - 1) \o <<"fail">>)
    /\ []((pc = "sb_save" \/ (pc = "sc_savecoll" /\ IsFlat(cur)))
            => /\ attempt \in 1..MAX_RETRIES
               /\ trace = FailedAttempts(attempt - 1) \o <<"ok">>)
    /\ []((pc = "rec_save" /\ err.error_type = "fetch")
            => trace = FailedAttempts(MAX_RETRIES - 1) \o <<"fail">>)
    /\ [](Len(trace) <= 2 * MAX_RETRIES - 1)
    /\ [][(pc \in {"fetch", "retry_sleep"} /\ pc' \in {"fetch", "retry_sleep"})
            => Len(trace') = Len(trace) + 1]_vars

\* C9 witness: fetchWithRetry is about to return null after MAX_RETRIES failed
\* requests.
C9_Witness ==
    /\ pc = "rec_save" /\ err.error_type = "fetch"
    /\ Len(trace) = 2 * MAX_RETRIES - 1

\* C10: scrapeCollection of a collection that the persisted state lists as
\* completed makes no request and writes nothing: the state file, the cache,
\* the collection files and the log stay as they are, and it returns.
C10_CompletedCollectionSkipped ==
    [][((pc = "sc_load" /\ Includes(Persisted.completed_collections, cur))
          \/ pc = "sc_skip")
         => /\ UNCHANGED disk
            /\ pc' \in (IF pc = "sc_load" THEN {"sc_skip", "idle"} ELSE {"done", "idle"})
            /\ trace' = <<>> /\ sinceFetch' = -1
            /\ result' = Null]_vars

\* C10 witness: scrapeCollection has found its collection completed, with its
\* output on disk.
C10_Witness ==
    /\ pc = "sc_skip" /\ Readable(collFile[cur])
    /\ Includes(Persisted.completed_collections, cur)

\* ======================================================== rescrape-one.ts
\* One process per invocation; each await is one step.  The script keeps no
\* state file and no error log: a book that fails is logged to the console
\* and left out, a flat page that fails ends the process.
RsCollections == {"A", "B", "F"}

\* one books directory for every collection
RsBookFileShared(c, book) == <<"books", "A", book>>

\* `${booksDir}/${book}.json` with booksDir = `data/books/${collectionId}`
RsBookFile(c, book) == <<"books", c, book>>

\* `${collectionsDir}/${collectionId}.json`
RsCollectionFile(c) == <<"collections", c>>

\* Deno.writeTextFile(bookFile, ...)
RsWriteBookFile(cache, path, data) == [cache EXCEPT ![path[2]][path[3]] = File(data)]

\* Deno.writeTextFile(collectionFile, ...)
RsWriteCollectionFile(files, path, data) == [files EXCEPT ![path[2]] = File(data)]

RsBook(r) == ConfigBooks(r.collectionId)[r.i + 1]

\* the end of an iteration of the book loop: sleep(RATE_LIMIT_MS) unless it
\* was the last book, and after the last book the result is built
RsEndIteration(r) ==
    IF r.i < Len(ConfigBooks(r.collectionId)) - 1
    THEN [r EXCEPT !.pc = "rate_sleep"]
    ELSE [r EXCEPT !.pc = "write_coll",
                   !.result = BookAggregate(r.collectionId, r.books)]

\* the script starts with a valid collection id and makes its directories
RsStart(p) ==
    /\ rs[p].pc = "off"
    /\ \E c \in RsCollections :
         rs' = [rs EXCEPT ![p] = [RsOff EXCEPT !.pc = "fetch", !.collectionId = c,
                                               !.attempt = 1]]
    /\ UNCHANGED <<disk, site, orchestrator, parse>>

\* one attempt of fetchWithRetry, and the parse that follows a page
RsFetch(p) ==
    /\ rs[p].pc = "fetch"
    /\ \E o \in {Failed, BadPage, Page(0)} :
         LET r == rs[p]
             thrown == (o = Failed /\ r.attempt = MAX_RETRIES) \/ ParseThrows(o)
         IN  rs' = [rs EXCEPT ![p] =
                IF o = Failed /\ r.attempt # MAX_RETRIES
                THEN [r EXCEPT !.pc = "retry_sleep"]
                ELSE IF thrown
                THEN IF IsFlat(r.collectionId)
                     THEN [r EXCEPT !.pc = "failed"]
                     ELSE RsEndIteration(r)
                ELSE IF IsFlat(r.collectionId)
                THEN [r EXCEPT !.pc = "write_coll",
                               !.result = FlatAggregate(r.collectionId, o.version)]
                ELSE [r EXCEPT !.pc = "write_book",
                               !.scrapedBook = ScrapedBook(RsBook(r), o.version)]]
    /\ UNCHANGED <<disk, site, orchestrator, parse>>

\* sleep(RETRY_DELAY_MS) and the next attempt
RsRetrySleep(p) ==
    /\ rs[p].pc = "retry_sleep"
    /\ rs' = [rs EXCEPT ![p].pc = "fetch", ![p].attempt = @ + 1]
    /\ UNCHANGED <<disk, site, orchestrator, parse>>

\* the book file is written, then books.push(scrapedBook)
RsWriteBook(p) ==
    /\ rs[p].pc = "write_book"
    /\ LET r    == rs[p]
           path == RsBookFile(r.collectionId, RsBook(r))
       IN  /\ bookCache' = RsWriteBookFile(bookCache, path, r.scrapedBook)
           /\ rs' = [rs EXCEPT ![p] =
                       RsEndIteration([r EXCEPT !.books = Append(@, r.scrapedBook),
                                                !.scrapedBook = Null,
                                                !.written = @ \cup {path}])]
    /\ UNCHANGED <<stateFile, collFile, errorLog, site, orchestrator, parse>>

\* sleep(RATE_LIMIT_MS) and the next book
RsRateSleep(p) ==
    /\ rs[p].pc = "rate_sleep"
    /\ rs' = [rs EXCEPT ![p].pc = "fetch", ![p].i = @ + 1, ![p].attempt = 1]
    /\ UNCHANGED <<disk, site, orchestrator, parse>>

\* the collection file is written and the script ends
RsWriteCollection(p) ==
    /\ rs[p].pc = "write_coll"
    /\ LET r    == rs[p]
           path == RsCollectionFile(r.collectionId)
       IN  /\ collFile' = RsWriteCollectionFile(collFile, path, r.result)
           /\ rs' = [rs EXCEPT ![p].pc = "done", ![p].written = @ \cup {path}]
    /\ UNCHANGED <<stateFile, bookCache, errorLog, site, orchestrator, parse>>

\* a data directory that an orchestrator run may have left, and no process yet
InitRescrape ==
    /\ stateFile \in {NoFile, File(FreshState),
                      File(markCollectionCompleted(FreshState, "A"))}
    /\ bookCache = [c \in RsCollections |-> [b \in SeqToSet(ConfigBooks(c)) |-> NoFile]]
    /\ collFile = [c \in RsCollections |-> NoFile]
    /\ errorLog = <<>>
    /\ site = [u \in Urls |-> "any"]
    /\ run = 0 /\ pc = "idle" /\ cmd = "none" /\ ioFault = "none"
    /\ NoLocals
    /\ ExtIdle

NextRescrape ==
    \E p \in RsProcs :
        \/ RsStart(p)
        \/ RsFetch(p)
        \/ RsRetrySleep(p)
        \/ RsWriteBook(p)
        \/ RsRateSleep(p)
        \/ RsWriteCollection(p)

\* two rescrape-one processes, interleaved in any way
SpecRescrape == InitRescrape /\ [][NextRescrape]_vars

\* C11: no step of a rescrape-one process changes the state file or the error
\* log; the files of a collection change only in a step of a process that was
\* started for that collection; and two processes started for different
\* collections have written disjoint sets of files, at every point of every
\* interleaving.
C11_RescrapeDisjoint ==
    /\ [][UNCHANGED <<stateFile, errorLog>>]_vars
    /\ [][\A c \in RsCollections :
            (bookCache'[c] # bookCache[c] \/ collFile'[c] # collFile[c])
               => \E p \in RsProcs : rs[p].collectionId = c /\ rs'[p] # rs[p]]_vars
    /\ [](\A p, q \in RsProcs :
            (p # q /\ rs[p].pc # "off" /\ rs[q].pc # "off"
               /\ rs[p].collectionId # rs[q].collectionId)
               => rs[p].written \cap rs[q].written = {})

\* C11 witness: two processes, for two book-based collections, have both
\* written every book file and their collection file, one of them for a
\* collection that the state file lists as completed.
C11_Witness ==
    /\ rs[1].pc = "done" /\ rs[1].collectionId = "A"
    /\ rs[2].pc = "done" /\ rs[2].collectionId = "B"
    /\ Cardinality(rs[1].written) = NumBooks + 1
    /\ Cardinality(rs[2].written) = NumBooks + 1
    /\ Readable(collFile["A"]) /\ Readable(collFile["B"])
    /\ Includes(Persisted.completed_collections, "A")

\* ========================================== parser.ts: extractHadiths
\* The page is read as the parser walks it: each step takes the next
\* container, link or text match, which can be any.  A unit number "12a" is
\* the record of its digits and its suffix; a unit keeps, as origin, the
\* element it was made from.  parse.num is the number of the element the loop
\* has just read, Null if it had none.
notParser == <<disk, site, orchestrator, rs>>

Suffixes == {"", "a", "b", "A"}

Lowercase == {"a", "b"}

Num(d, x) == [digits |-> d, suffix |-> x]

RawNumbers == {Num(d, x) : d \in 1..MaxNum, x \in Suffixes}

\* hadith_number.replace(/[a-z]$/, "")
replaceTrailingLetter(n) == IF n.suffix \in Lowercase THEN Num(n.digits, "") ELSE n

\* href.match(/${collectionId}:(\d+)([a-z])?/): digits and a lowercase letter
\* if one follows
HrefNumber(raw) == IF raw.suffix \in Lowercase THEN raw ELSE Num(raw.digits, "")

\* A container: where its number is found (the first of the four places that
\* has one), what is written there, and whether it has .arabic_hadith_full.
Containers ==
    {[source |-> "none", raw |-> Num(1, ""), arabic |-> TRUE]}
    \cup [source : {"href", "reftext", "data", "anchor"}, raw : RawNumbers,
          arabic : BOOLEAN]

\* parseHadithContainer: hadithNumber
hadithNumber(c) ==
    CASE c.source = "href"    -> HrefNumber(c.raw)
      [] c.source = "reftext" -> IF c.raw.suffix \in Lowercase \cup {""} THEN c.raw ELSE Null
      [] c.source = "data"    -> c.raw
      [] c.source = "anchor"  -> IF c.raw.suffix \in Lowercase \cup {""} THEN c.raw ELSE Null
      [] OTHER                -> Null

Unit(n, origin) == [hadith_number |-> n, has_variants |-> FALSE, origin |-> origin]

\* parseHadithContainer: null without a number or without Arabic text
parseHadithContainer(c, origin) ==
    IF hadithNumber(c) = Null \/ ~c.arabic THEN Null ELSE Unit(hadithNumber(c), origin)

\* a findIndex that finds nothing
findIndexNever(hs, n) == 0

\* hadiths.findIndex((h) => base(h.hadith_number) === base(n)); 0 for -1
findIndex(hs, n) ==
    LET found == {j \in 1..Len(hs) :
                    replaceTrailingLetter(hs[j].hadith_number) = replaceTrailingLetter(n)}
    IN  IF found = {} THEN 0 ELSE CHOOSE j \in found : \A m \in found : j <= m

\* every tier is tried
TryNextTierAlways(hs) == TRUE

\* if (hadiths.length === 0): the next tier is tried
TryNextTier(hs) == Len(hs) = 0

\* a link a[href*="/<collection>:"]: its href has a number or not, and
\* extractHadithFromLink finds content around it or not
Links == [raw : RawNumbers \cup {Null}, content : BOOLEAN]

\* a match of `${collectionName}\s+(\d+)\s*([a-z])?` with the flags "gi", and
\* whether Arabic and English text are found around it
TextMatches == [raw : RawNumbers, content : BOOLEAN]

EhCall ==
    [fn |-> "extractHadiths", tier |-> "containers", k |-> 0, hadiths |-> <<>>,
     seenNumbers |-> {}, yielded |-> <<>>, counts |-> <<>>, num |-> Null]

\* one iteration of for (const container of hadithContainers)
EhContainer ==
    /\ parse.fn = "extractHadiths" /\ parse.tier = "containers" /\ parse.k < MaxItems
    /\ \E c \in Containers :
         LET hadith      == parseHadithContainer(c, <<"containers", parse.k + 1>>)
             existingIdx == findIndex(parse.hadiths, hadith.hadith_number)
         IN  parse' = IF hadith = Null
                      THEN [parse EXCEPT !.k = @ + 1, !.num = Null]
                      ELSE IF existingIdx # 0
                      THEN [parse EXCEPT !.k = @ + 1, !.num = hadith.hadith_number,
                                         !.hadiths[existingIdx].has_variants = TRUE,
                                         !.yielded = Append(@, hadith)]
                      ELSE [parse EXCEPT !.k = @ + 1, !.num = hadith.hadith_number,
                                         !.hadiths = Append(@, hadith),
                                         !.yielded = Append(@, hadith)]
    /\ UNCHANGED notParser

\* the containers are exhausted
EhContainersEnd ==
    /\ parse.fn = "extractHadiths" /\ parse.tier = "containers"
    /\ parse' = IF TryNextTier(parse.hadiths)
                THEN [parse EXCEPT !.tier = "links", !.k = 0, !.seenNumbers = {}, !.num = Null,
                                   !.counts = Append(@, Len(parse.hadiths))]
                ELSE [parse EXCEPT !.tier = "returned",
                                   !.counts = Append(@, Len(parse.hadiths))]
    /\ UNCHANGED notParser

\* one iteration of for (const link of allLinks)
EhLink ==
    /\ parse.fn = "extractHadiths" /\ parse.tier = "links" /\ parse.k < MaxItems
    /\ \E l \in Links :
         LET num         == HrefNumber(l.raw)
             baseNum     == replaceTrailingLetter(num)
             existingIdx == findIndex(parse.hadiths, baseNum)
         IN  parse' = IF l.raw = Null
                      THEN [parse EXCEPT !.k = @ + 1, !.num = Null]
                      ELSE IF baseNum \in parse.seenNumbers
                      THEN IF existingIdx # 0
                           THEN [parse EXCEPT !.k = @ + 1, !.num = num,
                                              !.hadiths[existingIdx].has_variants = TRUE]
                           ELSE [parse EXCEPT !.k = @ + 1, !.num = num]
                      ELSE IF l.content
                      THEN [parse EXCEPT !.k = @ + 1, !.num = num,
                                         !.seenNumbers = @ \cup {baseNum},
                                         !.hadiths = Append(@, Unit(num, <<"links", parse.k + 1>>))]
                      ELSE [parse EXCEPT !.k = @ + 1, !.num = num,
                                         !.seenNumbers = @ \cup {baseNum}]
    /\ UNCHANGED notParser

\* the links are exhausted
EhLinksEnd ==
    /\ parse.fn = "extractHadiths" /\ parse.tier = "links"
    /\ parse' = IF TryNextTier(parse.hadiths)
                THEN [parse EXCEPT !.tier = "text", !.k = 0, !.seenNumbers = {}, !.num = Null,
                                   !.counts = Append(@, Len(parse.hadiths))]
                ELSE [parse EXCEPT !.tier = "returned",
                                   !.counts = Append(@, Len(parse.hadiths))]
    /\ UNCHANGED notParser

\* extractHadithsByTextPattern: one iteration of while (refPattern.exec(...))
EhTextMatch ==
    /\ parse.fn = "extractHadiths" /\ parse.tier = "text" /\ parse.k < MaxItems
    /\ \E m \in TextMatches :
         LET num     == m.raw
             baseNum == replaceTrailingLetter(num)
         IN  parse' = IF baseNum \in parse.seenNumbers
                      THEN [parse EXCEPT !.k = @ + 1, !.num = num]
                      ELSE IF m.content
                      THEN [parse EXCEPT !.k = @ + 1, !.num = num,
                                         !.seenNumbers = @ \cup {baseNum},
                                         !.hadiths = Append(@, Unit(num, <<"text", parse.k + 1>>))]
                      ELSE [parse EXCEPT !.k = @ + 1, !.num = num,
                                         !.seenNumbers = @ \cup {baseNum}]
    /\ UNCHANGED notParser

\* the matches are exhausted: extractHadithsByTextPattern's result is returned
EhTextEnd ==
    /\ parse.fn = "extractHadiths" /\ parse.tier = "text"
    /\ parse' = [parse EXCEPT !.tier = "returned", !.counts = Append(@, Len(parse.hadiths))]
    /\ UNCHANGED notParser

\* a call of a parser function on a page; the orchestrator and the rescrape
\* processes stay idle
InitParser(call) ==
    /\ site = [u \in Urls |-> "any"]
    /\ InitOrchestrator
    /\ rs = [p \in RsProcs |-> RsOff]
    /\ parse = call

NextExtract ==
    \/ EhContainer \/ EhContainersEnd
    \/ EhLink \/ EhLinksEnd
    \/ EhTextMatch \/ EhTextEnd

\* extractHadiths on any page
SpecExtract == InitParser(EhCall) /\ [][NextExtract]_vars

\* a unit number without its trailing letter, whatever the letter
StripLetter(n) == Num(n.digits, "")

EhReturned == parse.fn = "extractHadiths" /\ parse.tier = "returned"

\* C12 as stated: whichever tier produced them, the units that extractHadiths
\* returns have pairwise distinct numbers after one trailing letter is
\* stripped.
C12_UnitNumbersDistinct ==
    EhReturned =>
        \A j, m \in 1..Len(parse.hadiths) :
            j # m => StripLetter(parse.hadiths[j].hadith_number)
                       # StripLetter(parse.hadiths[m].hadith_number)

\* the structured-container tier is running or has produced the result
EhContainerTier ==
    /\ parse.fn = "extractHadiths"
    /\ parse.tier = "containers" \/ (parse.tier = "returned" /\ Len(parse.counts) = 1)

\* of the units in ys, in order: the first of each base number, flagged when
\* a later one has the same base number
FirstOfEachBase(ys, base) ==
    LET idx  == [j \in 1..Len(ys) |-> j]
        same(j, m) == base[j] = base[m]
        kept == SelectSeq(idx, LAMBDA j : \A m \in 1..(j - 1) : ~same(j, m))
    IN  [k \in 1..Len(kept) |->
            [ys[kept[k]] EXCEPT !.has_variants = \E m \in (kept[k] + 1)..Len(ys) : same(kept[k], m)]]

Tiers == <<"containers", "links", "text">>

\* C15: the reference-link tier runs only after the structured-container
\* tier ended with zero units, the text-pattern tier only after the
\* reference-link tier ended with zero as well; what extractHadiths returns
\* is what the last tier it ran produced, that tier being the first that
\* produced a unit, or the text-pattern tier, with an empty result if it
\* produced none.
C15_FirstYieldingTierWins ==
    /\ (parse.fn = "extractHadiths" /\ parse.tier = "links")
          => parse.counts = <<0>> /\ parse.yielded = <<>>
    /\ (parse.fn = "extractHadiths" /\ parse.tier = "text") => parse.counts = <<0, 0>>
    /\ EhReturned =>
          LET n == Len(parse.counts)
          IN  /\ n \in 1..3
              /\ \A t \in 1..(n - 1) : parse.counts[t] = 0
              /\ n < 3 => parse.counts[n] > 0
              /\ Len(parse.hadiths) = parse.counts[n]
              /\ \A j \in 1..Len(parse.hadiths) : parse.hadiths[j].origin[1] = Tiers[n]

\* C15 witness: the containers gave nothing, the links gave two units, and
\* these two are returned.
C15_Witness ==
    /\ EhReturned
    /\ parse.counts = <<0, 2>>
    /\ Len(parse.hadiths) = 2 /\ parse.hadiths[1].origin[1] = "links"

\* ========================================== parser.ts: extractChapters
\* chapterNum === null
NoNumber == 0 - 1

\* what a "(N)" in an element's text gives, or no such text
ChapterNumbers == (0..MaxNum) \cup {NoNumber}

\* a .chapter container: the numbers in .echapno and .achapno, and whether a
\* title of two characters or more is left in .englishchapter or
\* .arabicchapter
ChapterContainers == [echapno : ChapterNumbers, achapno : ChapterNumbers, named : BOOLEAN]

\* chapterNum as read from .echapno, or from .achapno if that gave none or 0
chapterNumOf(c) ==
    IF c.echapno \notin {NoNumber, 0} THEN c.echapno
    ELSE IF c.achapno # NoNumber THEN c.achapno
    ELSE c.echapno

\* an .achapter or .chapterTitle element: the number its text begins with,
\* and whether a title of more than two characters is left
ChapterElements == [num : ChapterNumbers, titled : BOOLEAN]

Chapter(n, origin) == [chapter_number |-> n, origin |-> origin]

\* parse.declared and parse.named are the number that the container just
\* read declares in its markup (NoNumber if none) and whether it has a title.

EcCall ==
    [fn |-> "extractChapters", tier |-> "chapter", k |-> 0, chapters |-> <<>>,
     seenNumbers |-> {}, chapterNum |-> 0, declared |-> NoNumber, named |-> FALSE]

\* one iteration of for (const container of chapterContainers)
EcChapter ==
    /\ parse.fn = "extractChapters" /\ parse.tier = "chapter" /\ parse.k < MaxItems
    /\ \E c \in ChapterContainers :
         LET chapterNum == IF chapterNumOf(c) = NoNumber THEN Len(parse.chapters) + 1
                           ELSE chapterNumOf(c)
             read == [parse EXCEPT !.k = @ + 1, !.declared = chapterNumOf(c),
                                   !.named = c.named]
         IN  parse' = IF ~c.named \/ chapterNum \in parse.seenNumbers
                      THEN read
                      ELSE [read EXCEPT  !.seenNumbers = @ \cup {chapterNum},
                                         !.chapters = Append(@, Chapter(chapterNum,
                                                                <<"chapter", parse.k + 1>>))]
    /\ UNCHANGED notParser

\* the .chapter containers are exhausted: if (chapters.length === 0) the older
\* format is tried
EcChaptersEnd ==
    /\ parse.fn = "extractChapters" /\ parse.tier = "chapter"
    /\ parse' = IF Len(parse.chapters) = 0
                THEN [parse EXCEPT !.tier = "fallback", !.k = 0, !.chapterNum = 0]
                ELSE [parse EXCEPT !.tier = "returned"]
    /\ UNCHANGED notParser

\* one iteration of for (const el of chapterElements)
EcFallback ==
    /\ parse.fn = "extractChapters" /\ parse.tier = "fallback" /\ parse.k < MaxItems
    /\ \E el \in ChapterElements :
         LET chapterNum == IF el.num # NoNumber THEN el.num ELSE parse.chapterNum + 1
         IN  parse' = IF el.titled
                      THEN [parse EXCEPT !.k = @ + 1, !.chapterNum = chapterNum,
                                         !.chapters = Append(@, Chapter(chapterNum,
                                                                <<"fallback", parse.k + 1>>))]
                      ELSE [parse EXCEPT !.k = @ + 1, !.chapterNum = chapterNum]
    /\ UNCHANGED notParser

\* the elements are exhausted
EcFallbackEnd ==
    /\ parse.fn = "extractChapters" /\ parse.tier = "fallback"
    /\ parse' = [parse EXCEPT !.tier = "returned"]
    /\ UNCHANGED notParser

NextChapters == EcChapter \/ EcChaptersEnd \/ EcFallback \/ EcFallbackEnd

\* extractChapters on any page
SpecChapters == InitParser(EcCall) /\ [][NextChapters]_vars

\* C14 as stated: the chapters that extractChapters returns, from the .chapter
\* containers or from the older format, have pairwise distinct chapter
\* numbers.
C14_ChapterNumbersDistinct ==
    (parse.fn = "extractChapters" /\ parse.tier = "returned") =>
        \A j, m \in 1..Len(parse.chapters) :
            j # m => parse.chapters[j].chapter_number # parse.chapters[m].chapter_number

\* ---------------------------------------------------------------------------
\* parseHadithContainer (src/src/parser.ts:345-578): the fields of one unit.
\* A text is the sequence of its whitespace-separated tokens, so that collapsing
\* whitespace is built into the representation; "q" is the quotation mark, "rlm"
\* an invisible direction mark. A nullable string is Null or Text(s); Text(<<>>)
\* is the empty string. The three groups of fields (Arabic text, English text,
\* grade and source) are computed from different elements of the container and
\* do not read one another: a behaviour of SpecContainer follows one group, for
\* a container that has a number.
\* ---------------------------------------------------------------------------
Text(s) == [kind |-> "text", s |-> s]

\* !x for x : string | null
Falsy(x) == x = Null \/ x = Text(<<>>)

\* s.length: the marks count one character, every word six, and a space
\* separates two tokens
RECURSIVE Length(_)
Length(s) ==
    LET TokenLength(t) == IF t \in {"q", ".", ":", "rlm", "-"} THEN 1 ELSE 6
    IN  IF s = <<>> THEN 0
        ELSE IF Len(s) = 1 THEN TokenLength(s[1])
        ELSE TokenLength(Head(s)) + 1 + Length(Tail(s))

IsSubstring(x, y) ==
    \E k \in 0..(Len(y) - Len(x)) : SubSeq(y, k + 1, k + Len(x)) = x

\* cleanArabicText: the invisible characters are removed (whitespace is already
\* collapsed in a token sequence)
cleanArabicText(s) == SelectSeq(s, LAMBDA t : t # "rlm")

Min(S) == CHOOSE x \in S : \A y \in S : x <= y

\* matnAr.replace(/^["‏]+|["‏]+$/g, "").trim(): the quotation marks at the
\* start and at the end are removed
stripQuotes(s) ==
    LET Kept == {k \in 1..Len(s) : s[k] # "q"}
    IN  IF Kept = {} THEN <<>>
        ELSE SubSeq(s, Min(Kept), CHOOSE k \in Kept : \A m \in Kept : m <= k)

ARABIC_NARRATION_VERBS == {"haddathana", "akhbarana", "samitu"}

\* the text starts with one of the first seven narration verbs
startsWithIsnadPattern(s) == s # <<>> /\ s[1] \in {"haddathana", "akhbarana"}

\* splitIsnadFromMatn: the split point is the earlier of "anna" followed by
\* "rasul" (split before it) and the first "qala"/"yaqulu" not followed by a
\* narration verb (split after it); Null when there is none or when a part is
\* too short or the chain too long
splitIsnadFromMatn(s) ==
    IF ~startsWithIsnadPattern(s) THEN Null
    ELSE LET \* the first word after position p0, punctuation skipped
             NextWord(s0, p0) ==
                 LET J == {j \in (p0 + 1)..Len(s0) : s0[j] \notin {".", ":"}}
                 IN  IF J = {} THEN "" ELSE s0[Min(J)]
             Anna == {p0 \in 1..(Len(s) - 1) : s[p0] = "anna" /\ s[p0 + 1] = "rasul"}
             Qala == {p0 \in 1..Len(s) : /\ s[p0] \in {"qala", "yaqulu"}
                                        /\ NextWord(s, p0) \notin ARABIC_NARRATION_VERBS}
             Points == {p0 - 1 : p0 \in Anna} \cup Qala
         IN  IF Points = {} THEN Null
             ELSE LET splitIndex == Min(Points)
                      isnad == SubSeq(s, 1, splitIndex)
                      matn == SubSeq(s, splitIndex + 1, Len(s))
                  IN  IF Length(isnad) < 5 \/ Length(matn) < 5 THEN Null
                      ELSE IF Length(isnad) * 100 > Length(s) * 85 THEN Null
                      ELSE [isnad |-> isnad, matn |-> matn]

\* extractIsnadAr: the first of the three patterns whose match has a length
\* between 10 and 70% of the text; a pattern matches from the first occurrence
\* of its verb to the first terminator after it
extractIsnadAr(s) ==
    LET IsnadArMatch(s0, verb, colonEnds) ==
            LET Starts == {a \in 1..Len(s0) : s0[a] = verb}
            IN  IF Starts = {} THEN Null
                ELSE LET a == Min(Starts)
                         Ends == {j \in (a + 1)..Len(s0) :
                                     \/ (j < Len(s0) /\ s0[j] = "qala" /\ s0[j + 1] = "qala")
                                     \/ (j < Len(s0) /\ s0[j] = "anna" /\ s0[j + 1] = "rasul")
                                     \/ (colonEnds /\ s0[j] = ":")}
                     IN  IF Ends = {} THEN Null ELSE Text(SubSeq(s0, a, Min(Ends) - 1))
        IsnadArAccepted(m, s0) ==
            m # Null /\ Length(m.s) > 10 /\ Length(m.s) * 10 < Length(s0) * 7
        m1 == IsnadArMatch(s, "haddathana", TRUE)
        m2 == IsnadArMatch(s, "akhbarana", TRUE)
        m3 == IsnadArMatch(s, "an", FALSE)
    IN  IF IsnadArAccepted(m1, s) THEN m1
        ELSE IF IsnadArAccepted(m2, s) THEN m2
        ELSE IF IsnadArAccepted(m3, s) THEN m3
        ELSE Null

\* the children of .arabic_hadith_full: spans of class arabic_sanad or
\* arabic_text_details, or text outside any span
ArabicTexts ==
    { <<".">>,
      <<"haddathana", "fulan", "qala">>,
      <<"q", "innama", "alamal", "q">>,
      <<"innama", "rlm", "alamal">>,
      <<"haddathana", "fulan", "qala", "innama", "alamal">>,
      <<"haddathana", "fulan", ":", "innama", "alamal", "innama", "alamal">> }
ArabicNodes == [class : {"arabic_sanad", "arabic_text_details", "text"}, text : ArabicTexts]

RECURSIVE textContent(_)
textContent(nodes) ==
    IF nodes = <<>> THEN <<>> ELSE Head(nodes).text \o textContent(Tail(nodes))

\* parseHadithContainer, lines 413-472: text_ar, isnad_ar, matn_ar, closing_ar of
\* the container whose .arabic_hadith_full has these children; Null when the
\* container has no Arabic text (the container is skipped)
arabicFields(nodes) ==
    LET textAr == cleanArabicText(textContent(nodes))
        details == SelectSeq(nodes, LAMBDA n : n.class = "arabic_text_details")
        sanads == SelectSeq(nodes, LAMBDA n : n.class = "arabic_sanad")
        OnlyPunctuation(s) == \A k \in 1..Len(s) : s[k] \in {".", ":"}
        matnEl == IF details = <<>> THEN Null
                  ELSE LET m == stripQuotes(cleanArabicText(details[1].text))
                       IN  IF Length(m) < 3 THEN Null ELSE Text(m)
        firstSanad == IF sanads # <<>> /\ Length(cleanArabicText(sanads[1].text)) > 3
                      THEN Text(cleanArabicText(sanads[1].text)) ELSE Null
        closingAr == IF /\ Len(sanads) > 1
                        /\ Length(cleanArabicText(sanads[2].text)) > 5
                        /\ ~OnlyPunctuation(cleanArabicText(sanads[2].text))
                     THEN Text(cleanArabicText(sanads[2].text)) ELSE Null
        split == IF firstSanad = Null /\ matnEl # Null
                 THEN splitIsnadFromMatn(matnEl.s) ELSE Null
        isnad1 == IF split # Null THEN Text(split.isnad) ELSE firstSanad
        matn1 == IF split # Null THEN Text(split.matn) ELSE matnEl
        flat == isnad1 = Null /\ matn1 = Null
        flatSplit == splitIsnadFromMatn(textAr)
    IN  IF textAr = <<>> THEN Null
        ELSE [text_ar |-> Text(textAr),
              isnad_ar |-> IF ~flat THEN isnad1
                           ELSE IF flatSplit # Null THEN Text(flatSplit.isnad)
                           ELSE extractIsnadAr(textAr),
              matn_ar |-> IF ~flat THEN matn1
                          ELSE IF flatSplit # Null THEN Text(flatSplit.matn)
                          ELSE Text(textAr),
              closing_ar |-> closingAr]

\* cleanEnglishText: script artifacts and interface words are removed
cleanEnglishText(s) == SelectSeq(s, LAMBDA t : t \notin {"rtHadith(1)"})

\* narratedText.replace(/:$/, "").trim()
stripColonEnd(s) ==
    IF s # <<>> /\ s[Len(s)] = ":" THEN SubSeq(s, 1, Len(s) - 1) ELSE s

\* stripEnglishNarratorIntro: "It was narrated from X that ..." is split after
\* "that"; "It was narrated from X: ..." and "Narrated X: ..." are split at the
\* colon, which is dropped; the content must exceed 5 characters
stripEnglishNarratorIntro(s) ==
    LET itWas == Len(s) >= 4 /\ SubSeq(s, 1, 3) = <<"It", "was", "narrated">>
                            /\ s[4] \in {"from", "that"}
        That == {j \in 6..Len(s) : s[j] = "that" /\ \A m \in 5..(j - 1) : s[m] # "."}
        Colon == {j \in 1..Len(s) : s[j] = ":"}
        byThat == itWas /\ That # {} /\ Length(SubSeq(s, Min(That) + 1, Len(s))) > 5
        byColon(first) == /\ Colon # {} /\ Min(Colon) > first
                          /\ Length(SubSeq(s, Min(Colon) + 1, Len(s))) > 5
    IN  IF Length(s) < 10 THEN Null
        ELSE IF byThat
             THEN [isnad |-> SubSeq(s, 1, Min(That)),
                   matn |-> SubSeq(s, Min(That) + 1, Len(s))]
        ELSE IF (itWas /\ byColon(5)) \/ (s[1] = "Narrated" /\ byColon(2))
             THEN [isnad |-> SubSeq(s, 1, Min(Colon) - 1),
                   matn |-> SubSeq(s, Min(Colon) + 1, Len(s))]
        ELSE Null

\* extractIsnadEn: "Narrated ...:" up to the colon, else the text before a colon
\* when it has between 5 and 200 characters (the texts here have none of the
\* other phrases the function knows)
extractIsnadEn(s) ==
    LET Colon == {j \in 1..Len(s) : s[j] = ":"}
        before == SubSeq(s, 1, Min(Colon) - 1)
    IN  IF Colon = {} \/ Min(Colon) = 1 THEN Null
        ELSE IF s[1] = "Narrated" /\ Min(Colon) > 2 THEN Text(before)
        ELSE IF Length(before) > 5 /\ Length(before) < 200 THEN Text(before)
        ELSE Null

\* an element of the container that a selector looks for: Null when the
\* container has no such element, else its text content
NarratedElements == {Null, Text(<<>>), Text(<<"Narrated", "Umar", ":">>)}
TextDetailsElements ==
    {Null, Text(<<>>), Text(<<"-">>), Text(<<"The", "deeds", "rtHadith(1)">>),
     Text(<<"Narrated", "Umar", ":", "The", "deeds">>),
     Text(<<"It", "was", "narrated", "from", "Umar", "that", "The", "deeds">>)}
EnglishElements ==
    {Null, Text(<<>>), Text(<<"The", "deeds">>),
     Text(<<"Narrated", "Umar", ":", "The", "deeds">>)}

\* parseHadithContainer, lines 474-534: text_en, isnad_en, matn_en
englishFields(narratedEl, textDetailsEl, englishEl) ==
    LET narratedText == IF narratedEl # Null THEN cleanEnglishText(narratedEl.s) ELSE <<>>
        detailsText == IF textDetailsEl # Null THEN cleanEnglishText(textDetailsEl.s)
                       ELSE <<>>
        isnad0 == IF narratedText # <<>> THEN Text(stripColonEnd(narratedText)) ELSE Null
        matn0 == IF detailsText # <<>> /\ Length(detailsText) > 3
                 THEN Text(detailsText) ELSE Null
        stripped == IF Falsy(isnad0) /\ matn0 # Null
                    THEN stripEnglishNarratorIntro(matn0.s) ELSE Null
        isnad1 == IF stripped # Null THEN Text(stripped.isnad) ELSE isnad0
        matn1 == IF stripped # Null THEN Text(stripped.matn) ELSE matn0
        text1 == IF narratedEl # Null \/ textDetailsEl # Null
                 THEN Text(narratedText \o detailsText) ELSE Null
        \* if (!textEn): fall back to the full English element
        full == IF englishEl # Null THEN Text(cleanEnglishText(englishEl.s)) ELSE Null
    IN  IF ~Falsy(text1)
        THEN [text_en |-> text1, isnad_en |-> isnad1, matn_en |-> matn1]
        ELSE [text_en |-> IF Falsy(full) THEN Text(<<>>) ELSE full,
              isnad_en |-> IF Falsy(full) THEN Null ELSE extractIsnadEn(full.s),
              matn_en |-> full]

\* the words of a grade cell
GradeWords == {"Sahih", "Hasan", "Da'if", "weak", "Maudu", "Munkar", "-", "&nbsp;"}

\* gradeText.toLowerCase()
toLowerCase(s) ==
    LET lower(t) == CASE t = "Sahih" -> "sahih"
                      [] t = "Hasan" -> "hasan"
                      [] t = "Da'if" -> "da'if"
                      [] t = "Maudu" -> "maudu"
                      [] t = "Munkar" -> "munkar"
                      [] OTHER -> t
    IN  [k \in 1..Len(s) |-> lower(s[k])]

\* cleanText: entities decoded, whitespace collapsed and trimmed
cleanText(s) == SelectSeq(s, LAMBDA t : t # "&nbsp;")

RECURSIVE SeqsUpTo(_, _)
SeqsUpTo(S, n) ==
    IF n = 0 THEN {<<>>}
    ELSE SeqsUpTo(S, n - 1) \cup {Append(x, t) : x \in SeqsUpTo(S, n - 1), t \in S}

GradeTexts == SeqsUpTo(GradeWords, MaxWords)

\* lower.includes(w) for one of the words
IncludesAny(lower, W) == \E k \in 1..Len(lower) : lower[k] \in W

normalizeCombinedLast(lower) ==
    IF IncludesAny(lower, {"maudu", "fabricated"}) THEN Text(<<"maudu">>)
    ELSE IF IncludesAny(lower, {"daif", "da'if", "weak"}) THEN Text(<<"daif">>)
    ELSE IF IncludesAny(lower, {"hasan"}) THEN Text(<<"hasan">>)
    ELSE IF IncludesAny(lower, {"sahih"}) THEN Text(<<"sahih">>)
    ELSE IF IsSubstring(<<"hasan", "sahih">>, lower) \/ IsSubstring(<<"sahih", "hasan">>, lower)
         THEN Text(<<"hasan", "sahih">>)
    ELSE Null

\* the if / else-if chain of extractGrades, lines 844-854
normalize(lower) ==
    IF IncludesAny(lower, {"maudu", "fabricated"}) THEN Text(<<"maudu">>)
    ELSE IF IncludesAny(lower, {"daif", "da'if", "weak"}) THEN Text(<<"daif">>)
    ELSE IF IsSubstring(<<"hasan", "sahih">>, lower) \/ IsSubstring(<<"sahih", "hasan">>, lower)
         THEN Text(<<"hasan", "sahih">>)
    ELSE IF IncludesAny(lower, {"hasan"}) THEN Text(<<"hasan">>)
    ELSE IF IncludesAny(lower, {"sahih"}) THEN Text(<<"sahih">>)
    ELSE Null

\* a grade table: Null when the container has none; english and arabic are the
\* text of the second cell of each language, Null when the language has fewer
\* than two cells
GradeTables ==
    {Null} \cup [english : {Null} \cup {Text(g) : g \in GradeTexts},
                 arabic : {Null, Text(<<>>), Text(<<"hasan_ar">>)}]

\* extractGrades
extractGrades(gradeTable) ==
    IF gradeTable = Null
    THEN [grade_en |-> Null, grade_ar |-> Null, normalized |-> Null]
    ELSE LET gradeText == IF gradeTable.english = Null THEN <<>>
                          ELSE cleanText(gradeTable.english.s)
             kept == gradeText # <<>> /\ Length(gradeText) > 1
             arText == IF gradeTable.arabic = Null THEN <<>>
                       ELSE cleanArabicText(gradeTable.arabic.s)
         IN  [grade_en |-> IF kept THEN Text(gradeText) ELSE Null,
              grade_ar |-> IF arText # <<>> /\ Length(arText) > 1 THEN Text(arText)
                           ELSE Null,
              normalized |-> IF kept THEN normalize(toLowerCase(gradeText)) ELSE Null]

\* extractSourceGrade on the .grade / .hadith_grade element: sahih, then hasan,
\* then weak
gradeElementGrade(gradeEl) ==
    IF gradeEl = Null THEN Null
    ELSE LET text == toLowerCase(gradeEl.s)
         IN  IF IncludesAny(text, {"sahih"}) THEN Text(<<"sahih">>)
             ELSE IF IncludesAny(text, {"hasan"}) THEN Text(<<"hasan">>)
             ELSE IF IncludesAny(text, {"daif", "da'if", "weak"}) THEN Text(<<"daif">>)
             ELSE Null

\* extractSourceGrade on the container text: match is the word captured by the
\* first of the three patterns that matches, Null when none does
GradeMatches == {Null, Text(<<"sahih">>), Text(<<"hasan">>), Text(<<"da'if">>), Text(<<"daif">>),
                 Text(<<"weak">>)}
textGrade(match) ==
    IF match = Null THEN Null
    ELSE IF match.s \in {<<"weak">>, <<"daif">>, <<"da'if">>} THEN Text(<<"daif">>)
    ELSE match

Categories == {Text(<<"maudu">>), Text(<<"daif">>), Text(<<"hasan", "sahih">>),
               Text(<<"hasan">>), Text(<<"sahih">>)}

\* extractSourceReference: the bracketed names of the source collections found
\* in the links or in the text of the container, Null when there are none (a
\* container of a primary collection may hold such links as well)
SourceReferences == {Null, Text(<<"[Bukhari]">>)}
IsCompilationAlways(collectionType) == TRUE

\* if (collectionType === "compilation")
IsCompilation(collectionType) == collectionType = "compilation"

PcCall == [fn |-> "parseHadithContainer", part |-> "entry", nodes |-> <<>>,
           input |-> Null, fields |-> Null]

\* the next child of .arabic_hadith_full is read
PcArabicNode ==
    /\ parse.fn = "parseHadithContainer" /\ parse.part \in {"entry", "arabic"}
    /\ Len(parse.nodes) < MaxItems
    /\ \E n \in ArabicNodes :
         parse' = [parse EXCEPT !.part = "arabic", !.nodes = Append(@, n)]
    /\ UNCHANGED notParser

\* lines 413-472 on the children read
PcArabicEnd ==
    /\ parse.fn = "parseHadithContainer" /\ parse.part \in {"entry", "arabic"}
    /\ parse' = [parse EXCEPT !.part = "arabic-returned",
                              !.fields = arabicFields(parse.nodes)]
    /\ UNCHANGED notParser

\* lines 474-534 on the English elements of the container
PcEnglish ==
    /\ parse.fn = "parseHadithContainer" /\ parse.part = "entry"
    /\ \E narratedEl \in NarratedElements, textDetailsEl \in TextDetailsElements,
          englishEl \in EnglishElements :
         parse' = [parse EXCEPT !.part = "english-returned",
                                !.input = [narratedEl |-> narratedEl,
                                           textDetailsEl |-> textDetailsEl,
                                           englishEl |-> englishEl],
                                !.fields = englishFields(narratedEl, textDetailsEl,
                                                         englishEl)]
    /\ UNCHANGED notParser

GradeFields(sourceReference, sourceGrade, grades) ==
    [source_reference |-> sourceReference, source_grade |-> sourceGrade,
     grade_en |-> grades.grade_en, grade_ar |-> grades.grade_ar]

\* lines 542-556 up to the grade table: a primary collection, or a compilation
\* whose grade table has a recognized grade, needs nothing more of the
\* container; for a compilation without one, extractSourceGrade goes on to the
\* .grade element
PcGradeTable ==
    /\ parse.fn = "parseHadithContainer" /\ parse.part = "entry"
    /\ \E collectionType \in {"primary", "compilation"}, gradeTable \in GradeTables,
          reference \in SourceReferences :
         LET grades == extractGrades(gradeTable)
             sourceReference == IF IsCompilation(collectionType) THEN reference ELSE Null
             input == [collectionType |-> collectionType, gradeTable |-> gradeTable,
                       sourceReference |-> sourceReference]
         IN  /\ parse' = IF IsCompilation(collectionType) /\ grades.normalized = Null
                         THEN [parse EXCEPT !.part = "grade-element", !.input = input]
                         ELSE [parse EXCEPT !.part = "grades-returned", !.input = input,
                                            !.fields = GradeFields(sourceReference,
                                                           grades.normalized, grades)]
    /\ UNCHANGED notParser

\* extractSourceGrade, lines 878-884: the .grade / .hadith_grade element
PcGradeElement ==
    /\ parse.fn = "parseHadithContainer" /\ parse.part = "grade-element"
    /\ \E gradeEl \in {Null} \cup {Text(g) : g \in GradeTexts} :
         LET grade == gradeElementGrade(gradeEl)
             input == [collectionType |-> parse.input.collectionType,
                       gradeTable |-> parse.input.gradeTable,
                       sourceReference |-> parse.input.sourceReference,
                       gradeEl |-> gradeEl]
         IN  parse' = IF grade = Null
                      THEN [parse EXCEPT !.part = "grade-text", !.input = input]
                      ELSE [parse EXCEPT !.part = "grades-returned", !.input = input,
                                         !.fields = GradeFields(
                                             parse.input.sourceReference, grade,
                                             extractGrades(parse.input.gradeTable))]
    /\ UNCHANGED notParser

\* extractSourceGrade, lines 886-903: the patterns on the text of the container
PcGradeText ==
    /\ parse.fn = "parseHadithContainer" /\ parse.part = "grade-text"
    /\ \E match \in GradeMatches :
         parse' = [parse EXCEPT !.part = "grades-returned",
                                !.input = [collectionType |-> parse.input.collectionType,
                                           gradeTable |-> parse.input.gradeTable,
                                           sourceReference |-> parse.input.sourceReference,
                                           gradeEl |-> parse.input.gradeEl,
                                           match |-> match],
                                !.fields = GradeFields(
                                    parse.input.sourceReference, textGrade(match),
                                    extractGrades(parse.input.gradeTable))]
    /\ UNCHANGED notParser

NextContainer ==
    \/ PcArabicNode \/ PcArabicEnd \/ PcEnglish
    \/ PcGradeTable \/ PcGradeElement \/ PcGradeText

\* parseHadithContainer on any container with a number
SpecContainer == InitParser(PcCall) /\ [][NextContainer]_vars

PcReturned(part) ==
    parse.fn = "parseHadithContainer" /\ parse.part = part /\ parse.fields # Null

TextOf(x) == IF x = Null THEN <<>> ELSE x.s

\* C16 as stated: for a unit of the container path whose chain and content are
\* both non-null, chain + content (+ closing when present) is, whitespace
\* normalized, a substring of the full display text, in Arabic and in English.
C16_ChainContentInFullText ==
    /\ (PcReturned("arabic-returned") /\ parse.fields.isnad_ar # Null
                                      /\ parse.fields.matn_ar # Null) =>
           IsSubstring(parse.fields.isnad_ar.s \o parse.fields.matn_ar.s
                           \o TextOf(parse.fields.closing_ar),
                       parse.fields.text_ar.s)
    /\ (PcReturned("english-returned") /\ parse.fields.isnad_en # Null
                                       /\ parse.fields.matn_en # Null) =>
           IsSubstring(parse.fields.isnad_en.s \o parse.fields.matn_en.s,
                       parse.fields.text_en.s)

NoEnglishText ==
    /\ Falsy(parse.input.narratedEl) /\ Falsy(parse.input.textDetailsEl)
    /\ Falsy(parse.input.englishEl)

\* C18 as stated: for a container with no English text, text_en and matn_en
\* are both the empty string, not null.
C18_NoEnglishGivesEmptyStrings ==
    (PcReturned("english-returned") /\ NoEnglishText) =>
        /\ parse.fields.text_en = Text(<<>>)
        /\ parse.fields.matn_en = Text(<<>>)

\* the categories in the order of the specification, and the words of each
Priority == <<Text(<<"maudu">>), Text(<<"daif">>), Text(<<"hasan", "sahih">>),
              Text(<<"hasan">>), Text(<<"sahih">>)>>

CategoryMatches(c, lower) ==
    CASE c = 1 -> \E k \in 1..Len(lower) : lower[k] \in {"maudu", "fabricated"}
      [] c = 2 -> \E k \in 1..Len(lower) : lower[k] \in {"daif", "da'if", "weak"}
      [] c = 3 -> \E k \in 1..(Len(lower) - 1) :
                      <<lower[k], lower[k + 1]>> \in {<<"hasan", "sahih">>,
                                                       <<"sahih", "hasan">>}
      [] c = 4 -> \E k \in 1..Len(lower) : lower[k] = "hasan"
      [] c = 5 -> \E k \in 1..Len(lower) : lower[k] = "sahih"

FirstCategory(s) ==
    LET M == {c \in 1..5 : CategoryMatches(c, toLowerCase(s))}
    IN  IF M = {} THEN Null ELSE Priority[Min(M)]

\* the grade text of the table of the container read: <<>> when there is none
TableGradeText ==
    IF parse.input.gradeTable = Null \/ parse.input.gradeTable.english = Null THEN <<>>
    ELSE cleanText(parse.input.gradeTable.english.s)

\* the text of the .grade element, when extractSourceGrade came to read it
ElementGradeText ==
    IF "gradeEl" \in DOMAIN parse.input /\ parse.input.gradeEl # Null
    THEN parse.input.gradeEl.s ELSE <<>>

\* C19 as stated: the normalized grade is the first category, in the order
\* fabricated, weak, hasan-and-sahih, hasan, sahih, that the grade text
\* matches; a grade text that matches none is kept as the raw grade with a null
\* normalized grade; the normalized value is one of the five or null.
C19_GradeByPriority ==
    PcReturned("grades-returned") =>
        /\ parse.fields.source_grade \in Categories \cup {Null}
        /\ (TableGradeText # <<>> /\ FirstCategory(TableGradeText) # Null) =>
               parse.fields.source_grade = FirstCategory(TableGradeText)
        /\ (TableGradeText # <<>> /\ FirstCategory(TableGradeText) = Null) =>
               parse.fields.grade_en = Text(TableGradeText)
        /\ (/\ TableGradeText # <<>> /\ FirstCategory(TableGradeText) = Null
            /\ parse.input.collectionType = "primary") =>
               parse.fields.source_grade = Null
        /\ (FirstCategory(TableGradeText) = Null /\ ElementGradeText # <<>>
            /\ FirstCategory(ElementGradeText) # Null) =>
               parse.fields.source_grade = FirstCategory(ElementGradeText)

\* C19 amended: for the text of the grade table, when it has more than one
\* character: the normalized grade is the first category in that order that
\* the text matches, and the text is the raw grade, also when it matches no
\* category (null normalized grade for a primary collection); a text of one
\* character is no grade at all. On every path the normalized value is one of
\* the five categories or null.
C19_TableGradeByPriority ==
    PcReturned("grades-returned") =>
        /\ parse.fields.source_grade \in Categories \cup {Null}
        /\ Length(TableGradeText) > 1 =>
               /\ parse.fields.grade_en = Text(TableGradeText)
               /\ FirstCategory(TableGradeText) # Null =>
                      parse.fields.source_grade = FirstCategory(TableGradeText)
               /\ (FirstCategory(TableGradeText) = Null
                   /\ parse.input.collectionType = "primary") =>
                      parse.fields.source_grade = Null
        /\ Length(TableGradeText) <= 1 =>
               /\ parse.fields.grade_en = Null
               /\ parse.input.collectionType = "primary" =>
                      parse.fields.source_grade = Null

\* C19 witness: a table grade that matches hasan, sahih and the combined
\* category is normalized to the combined category.
C19_Witness ==
    /\ PcReturned("grades-returned")
    /\ TableGradeText = <<"Hasan", "Sahih">>
    /\ parse.fields.grade_en = Text(<<"Hasan", "Sahih">>)
    /\ parse.fields.source_grade = Text(<<"hasan", "sahih">>)

\* C20: in a book-based collection, the iteration of the last book, whether
\* the book was returned or failed, ends with the aggregate handed to
\* scrapeCollection; unless the process is killed, the next step writes the
\* aggregate to the collection file, and the one after adds the collection to
\* completed_collections, sets current_collection to null and empties
\* completed_books, in memory and in the state file.
C20_LastBookCompletesCollection ==
    [][/\ (cur \in BookBased /\ i' # i /\ i' = Len(ConfigBooks(cur))) =>
              /\ pc' = "sc_savecoll"
              /\ result' # Null /\ result'.id = cur
       /\ (cur \in BookBased /\ pc = "sc_savecoll" /\ pc' # "idle") =>
              /\ pc' = "sc_mark"
              /\ Readable(collFile'[cur]) /\ collFile'[cur].data = result
       /\ (cur \in BookBased /\ pc = "sc_mark" /\ pc' # "idle") =>
              /\ Includes(state'.completed_collections, cur)
              /\ state'.current_collection = "null"
              /\ state'.completed_books = <<>>
              /\ loadState(stateFile') = state'
              /\ Readable(collFile'[cur])]_vars

\* C20 witness: a command has returned from a book-based collection of which
\* a book failed in this run: the aggregate is on disk without that book, and
\* the persisted state has the collection completed and no book progress.
C20_Witness ==
    /\ pc = "done" /\ cmd = cur /\ cur \in BookBased
    /\ Readable(collFile[cur]) /\ Len(collFile[cur].data.books) < NumBooks
    /\ \E e \in SeqToSet(ErrorsOfRun(Persisted.errors)) : e.collection = cur
    /\ Includes(Persisted.completed_collections, cur)
    /\ Persisted.current_collection = "null"
    /\ Persisted.completed_books = <<>>

\* C21: startCollection (the step of scrapeCollection that calls it) on a
\* collection other than current_collection sets current_collection to it and
\* empties completed_books; on the same collection it leaves completed_books
\* as it is; in both cases completed_collections and the errors are unchanged,
\* and the result is what the state file holds.
C21_StartCollectionFrame ==
    [][(pc = "sc_start" /\ pc' \in {"fetch", "loop"}) =>
           /\ state'.completed_collections = state.completed_collections
           /\ state'.errors = state.errors
           /\ state'.current_collection = cur
           /\ state'.completed_books = IF state.current_collection # cur THEN <<>>
                                       ELSE state.completed_books
           /\ loadState(stateFile') = state']_vars

\* C21 witness: a collection that was in progress with a book done has been
\* started again, and the book is still in completed_books.
C21_Witness ==
    /\ pc = "loop" /\ i = 0 /\ cur \in BookBased
    /\ state.current_collection = cur
    /\ state.completed_books # <<>>
    /\ loadState(stateFile) = state

\* C22: in the run of a book-based collection the steps of a book follow one
\* another: a first request for a book is issued from the head of the loop
\* only, with no book half processed and every book gathered so far persisted
\* in the cache and marked done in the state and in the state file; the
\* request, with the parse of its page, leads to a retry, to the save of the
\* book or to the record of an error, for the same book; the save leads to
\* markBookCompleted, after which the book is done in memory and on disk; and
\* the loop index moves only when these steps are over.
C22_BookStepsSequential ==
    [][(cur \in BookBased /\ pc' # "idle") =>
           /\ (pc' = "fetch" /\ pc \notin {"fetch", "retry_sleep"}) =>
                  /\ pc = "loop" /\ attempt' = 1
                  /\ scraped = Null /\ err = NoError
                  /\ loadState(stateFile) = state
                  /\ \A k \in 1..Len(books) :
                        /\ BookCompleted(state, books[k].book_number)
                        /\ Readable(bookCache[cur][books[k].book_number])
           /\ pc = "fetch" =>
                  /\ pc' \in {"retry_sleep", "sb_save", "rec_save"}
                  /\ i' = i /\ books' = books
           /\ pc = "retry_sleep" => pc' = "fetch" /\ i' = i /\ attempt' = attempt + 1
           /\ pc = "sb_save" =>
                  /\ pc' = "after_book" /\ i' = i
                  /\ loadBookData(bookCache'[cur][CurBook]) = scraped
           /\ pc = "after_book" =>
                  /\ BookCompleted(state', CurBook)
                  /\ loadState(stateFile') = state'
                  /\ books' = Append(books, scraped)
                  /\ pc' \in {"rate_sleep", "loop", "sc_savecoll"}
           /\ i' = i + 1 => /\ pc \in {"loop", "after_book", "rate_sleep", "rec_log"}
                            /\ pc' \in {"loop", "sc_savecoll"}]_vars

\* C22 witness: the second book is being requested after the first was
\* requested, saved and marked done in this run.
C22_Witness ==
    /\ cur \in BookBased /\ pc = "fetch" /\ i = 1 /\ attempt = 1
    /\ Len(books) = 1 /\ sinceFetch = RATE_LIMIT_MS
    /\ BookCompleted(Persisted, 1)
    /\ Readable(bookCache[cur][1])

\* C23 as stated: in each of the three tiers, when the loop reads an
\* occurrence whose base number (the number without a trailing lowercase
\* letter) is that of a unit already retained, the step adds no unit, the
\* retained unit of that base number has its variant flag true afterwards,
\* and the retained units are otherwise what they were.
C23_LaterOccurrenceFlagsFirst ==
    [][(/\ parse.fn = "extractHadiths" /\ parse'.fn = "extractHadiths"
        /\ parse'.tier = parse.tier /\ parse'.k = parse.k + 1
        /\ parse'.num # Null
        /\ \E j \in 1..Len(parse.hadiths) :
              replaceTrailingLetter(parse.hadiths[j].hadith_number)
                 = replaceTrailingLetter(parse'.num))
       => \E j \in 1..Len(parse.hadiths) :
             /\ replaceTrailingLetter(parse.hadiths[j].hadith_number)
                   = replaceTrailingLetter(parse'.num)
             /\ parse'.hadiths = [parse.hadiths EXCEPT ![j].has_variants = TRUE]]_vars

\* ========================================== parser.ts: extractNarrator
\* The patterns are tried in list order; what a pattern captures in the text
\* (match[1]) can be any of these values, a sequence of words; match is Null
\* if the pattern does not match.
NarratorCaptures ==
    {<<"Narrated">>, <<"NARRATED", "(RA)">>, <<"He">>, <<"Al", "(RA)">>,
     <<"Abu", "Huraira">>, <<"Umar", "(RA)">>, <<"Anas", "who", "said", "so">>,
     <<"a hundred characters">>}

\* narrator.length
RECURSIVE NarratorLength(_)
NarratorLength(s) ==
    LET WordLength(t) == CASE t \in {"He", "Al"} -> 2
                           [] t = "a hundred characters" -> 100
                           [] OTHER -> 6
    IN  IF s = <<>> THEN 0
        ELSE IF Len(s) = 1 THEN WordLength(s[1])
        ELSE WordLength(Head(s)) + 1 + NarratorLength(Tail(s))

\* match[1].trim(), then .replace(/\s+who\s+said.*$/i, ""), then
\* .replace(/\s*\([^)]+\)\s*/g, " ").trim()
cleanNarrator(m) ==
    LET Who     == {j \in 2..(Len(m) - 1) : m[j] = "who" /\ m[j + 1] = "said"}
        cut     == IF Who = {} THEN m
                   ELSE SubSeq(m, 1, (CHOOSE j \in Who : \A n \in Who : j <= n) - 1)
    IN  SelectSeq(cut, LAMBDA t : t # "(RA)")

\* a narrator of any length is returned
NarratorAcceptedAlways(narrator) == TRUE

\* narrator.length > 2 && narrator.length < 100
NarratorAccepted(narrator) == NarratorLength(narrator) > 2 /\ NarratorLength(narrator) < 100

EnCall == [fn |-> "extractNarrator", k |-> 0, matches |-> <<>>, result |-> Null,
           returned |-> FALSE]

\* one iteration of for (const pattern of patterns)
EnPattern ==
    /\ parse.fn = "extractNarrator" /\ ~parse.returned /\ parse.k < MaxItems
    /\ \E match \in {Text(c) : c \in NarratorCaptures} \cup {Null} :
         LET narrator == cleanNarrator(match.s)
             lower    == [j \in 1..Len(narrator) |->
                            IF narrator[j] \in {"Narrated", "NARRATED"} THEN "narrated"
                            ELSE narrator[j]]
             tried    == [parse EXCEPT !.k = @ + 1, !.matches = Append(@, match)]
         IN  parse' = IF match = Null THEN tried
                      ELSE IF lower = <<"narrated">> THEN tried
                      ELSE IF NarratorAccepted(narrator)
                      THEN [tried EXCEPT !.result = Text(narrator), !.returned = TRUE]
                      ELSE tried
    /\ UNCHANGED notParser

\* the patterns are exhausted: return null
EnEnd ==
    /\ parse.fn = "extractNarrator" /\ ~parse.returned /\ parse.k = MaxItems
    /\ parse' = [parse EXCEPT !.returned = TRUE]
    /\ UNCHANGED notParser

NextNarrator == EnPattern \/ EnEnd

\* extractNarrator on any text, with a list of MaxItems patterns
SpecNarrator == InitParser(EnCall) /\ [][NextNarrator]_vars

\* C24 as stated: a pattern that matched and was passed over (the loop went
\* on to the next pattern, or ended without a result) captured a value that,
\* cleaned, is the word "narrated" in any case; so when a narrator is
\* returned it comes from the first matching pattern whose value is not that
\* word.
C24_PassedOverOnlyIfNarrated ==
    parse.fn = "extractNarrator" =>
        \A j \in 1..Len(parse.matches) :
            (parse.matches[j] # Null /\ (j < Len(parse.matches) \/ parse.result = Null))
               => cleanNarrator(parse.matches[j].s) \in {<<"Narrated">>, <<"NARRATED">>,
                                                         <<"narrated">>}

\* C24 amended: a pattern that matched and was passed over captured a value
\* that, cleaned, is the word "narrated" in any case or has fewer than 3 or
\* more than 99 characters; a returned narrator is the cleaned value of the
\* last pattern tried, has 3 to 99 characters and is not that word; and null
\* is returned only when every pattern of the list was tried.
C24_PassedOverIfNarratedOrBadLength ==
    parse.fn = "extractNarrator" =>
        LET n == Len(parse.matches)
            IsNarrated(v) == v \in {<<"Narrated">>, <<"NARRATED">>, <<"narrated">>}
            BadLength(v) == NarratorLength(v) < 3 \/ NarratorLength(v) > 99
        IN  /\ parse.k = n
            /\ \A j \in 1..n :
                  (parse.matches[j] # Null /\ (j < n \/ parse.result = Null))
                     => \/ IsNarrated(cleanNarrator(parse.matches[j].s))
                        \/ BadLength(cleanNarrator(parse.matches[j].s))
            /\ parse.result # Null =>
                  /\ parse.returned /\ parse.matches[n] # Null
                  /\ parse.result = Text(cleanNarrator(parse.matches[n].s))
                  /\ ~IsNarrated(parse.result.s) /\ ~BadLength(parse.result.s)
            /\ (parse.returned /\ parse.result = Null) => n = MaxItems

\* C24 witness: the first pattern captured "He", the second the word
\* "NARRATED" with an honorific, and the third gave the narrator.
C24_Witness ==
    /\ parse.fn = "extractNarrator" /\ parse.returned
    /\ parse.matches = <<Text(<<"He">>), Text(<<"NARRATED", "(RA)">>),
                         Text(<<"Anas", "who", "said", "so">>)>>
    /\ parse.result = Text(<<"Anas">>)

\* C25: in every reachable state the state file, as loadState reads it, has
\* a current_collection that is not in completed_collections, and no
\* completed_books when current_collection is null.
C25_PersistedStateConsistent ==
    /\ ~Includes(Persisted.completed_collections, Persisted.current_collection)
    /\ Persisted.current_collection = "null" => Persisted.completed_books = <<>>

\* C25 witness: a collection was completed, which emptied completed_books
\* and cleared current_collection, and the next one is under way with a book
\* done, all of it in the state file.
C25_Witness ==
    /\ Persisted.completed_collections # <<>>
    /\ Persisted.current_collection \in BookBased
    /\ Persisted.completed_books # <<>>

\* C26: in every reachable state, the states a kill leaves behind included,
\* each collection that the state file or the running command's state lists
\* in completed_collections has a readable aggregated output file, which is
\* the aggregate of that collection.
C26_CompletedHasOutputFile ==
    \A c \in SeqToSet(CollectionIds) :
        (Includes(Persisted.completed_collections, c)
           \/ (Running /\ pc # "sc_load" /\ pc # "all_load"
                 /\ Includes(state.completed_collections, c)))
           => Readable(collFile[c]) /\ collFile[c].data.id = c

\* C26 witness: the second command was killed; the collection that the first
\* one completed is in the state file and has its output file.
C26_Witness ==
    /\ pc = "idle" /\ run = 2
    /\ Persisted.completed_collections = <<"A">>
    /\ Readable(collFile["A"])

InitReset ==
    /\ site = [u \in Urls |-> "ok"]
    /\ ExtIdle
    /\ \E n \in 0..NumBooks :
         /\ bookCache = [c \in SeqToSet(CollectionIds) |->
                           [b \in SeqToSet(ConfigBooks(c)) |->
                              IF b <= n THEN File(ScrapedBook(b, 0)) ELSE NoFile]]
         /\ stateFile = saveState([FreshState EXCEPT
                                     !.current_collection = "A",
                                     !.completed_books = SubSeq(ConfigBooks("A"), 1, n)])
    /\ collFile = [c \in SeqToSet(CollectionIds) |-> NoFile]
    /\ errorLog = <<>>
    /\ run = 0 /\ pc = "idle" /\ cmd = "none" /\ ioFault = "none"
    /\ NoLocals

\* the commands of main.ts, none of them killed
NextReset ==
    \/ StartCommand
    \/ AllLoad
    \/ ScLoad \/ ScSkip \/ ScStart
    \/ Loop \/ AfterBook \/ RateSleep \/ SbSave
    \/ Fetch \/ RetrySleep
    \/ ScSaveColl \/ ScMark
    \/ Reset

SpecReset == InitReset /\ [][NextReset]_vars

\* C28: resetState writes the fresh state to the state file and leaves the
\* cache, the collection outputs and the error log as they are; and in a
\* scrape, after a reset as before it, a request is issued only for a book
\* whose cache entry cannot be read: the cached books are taken from the
\* cache.
C28_ResetKeepsCache ==
    [][/\ pc = "reset" => /\ stateFile' = File(FreshState)
                          /\ bookCache' = bookCache
                          /\ collFile' = collFile
                          /\ errorLog' = errorLog
       /\ (pc' = "fetch" /\ cur' \in BookBased)
             => ~Readable(bookCache'[cur'][ConfigBooks(cur')[i' + 1]])]_vars

\* C28 witness: the state was reset by the first command (no collection is
\* completed and no kill occurs here), and the second command has gathered
\* every book of the collection without a request, all of them from the cache
\* that the earlier scrape left.
C28_Witness ==
    /\ run = 2 /\ cur = "A" /\ pc = "sc_savecoll"
    /\ Persisted.completed_collections = <<>>
    /\ sinceFetch = -1
    /\ BookNumbers(result.books) = ConfigBooks("A")

\* C29: an aggregate on disk or about to be written, of a book-based
\* collection, lists the configured books that it has in the configured
\* order, each once, with total_books the number of books listed and
\* total_chapters and total_hadiths the sums of the chapters and of the units
\* of the books listed; the aggregate of a flat collection has no books,
\* total_books 0 and total_hadiths the number of units of its page.
C29_AggregateTotals ==
    LET Holds(a) ==
          IF IsFlat(a.id)
          THEN /\ a.books = Null
               /\ a.total_books = 0
               /\ a.total_hadiths = PageCounts(0, a.hadiths).hadiths
          ELSE LET nums == BookNumbers(a.books)
                   Listed(field) ==
                       {<<k, PageCounts(a.books[k].book_number, a.books[k].page)[field]>> :
                           k \in 1..Len(a.books)}
                   RECURSIVE Sum(_)
                   Sum(S) == IF S = {} THEN 0
                             ELSE LET x == CHOOSE y \in S : TRUE
                                  IN  x[2] + Sum(S \ {x})
               IN  /\ nums = SelectSeq(ConfigBooks(a.id), LAMBDA b : Includes(nums, b))
                   /\ a.total_books = Len(a.books)
                   /\ a.total_chapters = Sum(Listed("chapters"))
                   /\ a.total_hadiths = Sum(Listed("hadiths"))
    IN  /\ \A c \in SeqToSet(CollectionIds) :
              Readable(collFile[c]) => collFile[c].data.id = c /\ Holds(collFile[c].data)
        /\ pc \in {"sc_savecoll", "sc_mark"} => result.id = cur /\ Holds(result)

\* C29 witness: the aggregate of the book-based collection was written with
\* one configured book missing, and the aggregate of the flat collection
\* with its units.
C29_Witness ==
    /\ Readable(collFile["A"]) /\ Readable(collFile["F"])
    /\ collFile["A"].data.total_books = NumBooks - 1
    /\ collFile["A"].data.total_hadiths > 0
    /\ collFile["F"].data.total_hadiths > 0

\* C30 as stated: when the loop over the .chapter containers reads a
\* container that declares no chapter number and has a title, the step adds a
\* chapter to the output.
C30_UnnumberedChapterKept ==
    [][(/\ parse.fn = "extractChapters" /\ parse'.fn = "extractChapters"
        /\ parse.tier = "chapter" /\ parse'.tier = "chapter" /\ parse'.k = parse.k + 1
        /\ parse'.declared = NoNumber /\ parse'.named)
       => /\ Len(parse'.chapters) = Len(parse.chapters) + 1
          /\ parse'.chapters[Len(parse'.chapters)].chapter_number
                = Len(parse.chapters) + 1]_vars
====
